---- MODULE Spec2Model ----
(***************************************************************************)
(* The text-summarisation notebook (src/unnamed/part_000) as a state       *)
(* machine.  The state is the kernel's namespace (gatsby, gatsby_filt,     *)
(* words, adjacency, ...), the list of notebook steps still to run, the    *)
(* position of the running builder loop, what has been printed and the     *)
(* exception that stopped the run, if any.                                  *)
(*                                                                         *)
(* Tokens and spans are the objects of the tagging library: a token is     *)
(* identified by its index in the document (two tokens are == exactly when *)
(* they have the same index) and a span by its start and end index.  Token *)
(* indices are 0-based as in the notebook; document d holds token i at     *)
(* d[i + 1].                                                               *)
(***************************************************************************)
EXTENDS Integers, Sequences, FiniteSets, TLC

VARIABLES gatsby, todo, it, error, out,
          sentences, similarity,
          df, trainsize, df_train, df_test,
          X_train, X_train2, Y_train, X_test, X_test2, Y_test,
          lambds, r2_scores_lasso, r2_scores_ridge, lassBig, ridgeregrBig,
          df_models, labels, figure,
          gatsby_filt, words, adjacency, ranks, ranked,
          new_gats, second_gats, shorter_gats, new_gats_filt, new_gats_words,
          adjacency_digr, ranks_digr, ranked_digr, digr_loop,
          trig_gats, trig_gats_filt, trig_gats_words,
          adjacency_trigr, ranks_trigr, ranked_trigr

sentVars == <<sentences, similarity>>
prepVars == <<df, trainsize, df_train, df_test,
              X_train, X_train2, Y_train, X_test, X_test2, Y_test>>
fitVars == <<lambds, r2_scores_lasso, r2_scores_ridge, lassBig, ridgeregrBig>>
plotVars == <<df_models, labels, figure>>
regVars == <<prepVars, fitVars, plotVars>>
uniVars == <<gatsby_filt, words, adjacency, ranks, ranked>>
diVars == <<new_gats, second_gats, shorter_gats, new_gats_filt, new_gats_words,
            adjacency_digr, ranks_digr, ranked_digr, digr_loop>>
triVars == <<trig_gats, trig_gats_filt, trig_gats_words,
             adjacency_trigr, ranks_trigr, ranked_trigr>>
vars == <<gatsby, todo, it, error, out, sentVars, regVars, uniVars, diVars, triVars>>

----------------------------------------------------------------------------
(* Bounds of the inputs.                                                   *)

\* longest two-word-vocabulary document of the keyword sections
MaxLen == 9
\* most retained tokens in such a document
MaxNodes == 3
\* longest document over the whole vocabulary
MaxShort == 3
\* longest three-word-vocabulary document of the builder runs
MaxBuild == 6
\* most rows of the training data of the regression
MaxRows == 4

----------------------------------------------------------------------------
(* Program constants.                                                      *)

\* "end = ... (i+5)": the unigram window reaches 4 tokens ahead
UniEndOffset == 5
\* print(ranked[:5])
TopK == 5
\* nx.pagerank's default iteration cap
MaxIter == 100
\* scores are fixed-point numbers, Scale units to 1.0
Scale == 600000000
\* alpha=.85, as the fraction AlphaNum / AlphaDen
AlphaNum == 17
AlphaDen == 20
\* tol=.00000001, as the fraction 1 / TolDen
TolDen == 100000000
\* np.arange(0.01, 1, 0.01): the strengths are counted in units of
\* 1 / LambdaDen
LambdaDen == 100

----------------------------------------------------------------------------
(* Python and tagging-library primitives.                                  *)

Max(a, b) == IF a >= b THEN a ELSE b
Min(a, b) == IF a <= b THEN a ELSE b

Range(s) == {s[k] : k \in DOMAIN s}

SeqsUpTo(S, n) == UNION {[1..k -> S] : k \in 0..n}

\* a slice bound taken as it is written
PyIndexRaw(n, k) == k

\* A slice bound as Python normalises it for a sequence of length n.
PyIndex(n, k) == IF k < 0 THEN Max(n + k, 0) ELSE Min(k, n)

\* The 0-based indices selected by [lo:hi] on a sequence of length n.
PySlice(n, lo, hi) ==
    LET a == PyIndex(n, lo)
        b == PyIndex(n, hi)
    IN  [k \in 1..Max(b - a, 0) |-> a + k - 1]

\* The iteration orders a Python set holding the elements of S may have.
SetOrders(S) ==
    {f \in [1..Cardinality(S) -> S] : \A a, b \in DOMAIN f : a # b => f[a] # f[b]}

\* token attributes
Tok(text, pos, stop, punct) ==
    [text |-> text, pos_ |-> pos, is_stop |-> stop, is_punct |-> punct]

Cat == Tok("cat", "NOUN", FALSE, FALSE)
Dog == Tok("dog", "NOUN", FALSE, FALSE)
Big == Tok("big", "ADJ", FALSE, FALSE)
Ran == Tok("ran", "VERB", FALSE, FALSE)
The == Tok("the", "DET", TRUE, FALSE)
Part == Tok("part", "NOUN", TRUE, FALSE)
Dot == Tok(".", "PUNCT", FALSE, TRUE)
Sat == Tok("sat", "VERB", FALSE, FALSE)

Lexicon == {Cat, Dog, Big, Ran, The, Part, Dot}

\* token i of document doc
At(doc, i) == doc[i + 1]

----------------------------------------------------------------------------
(* pandas: a DataFrame of integers with row labels and column labels.      *)

\* pd.DataFrame(columns=names, index=names, data=0)
DataFrame(names) ==
    [index |-> names, columns |-> names,
     data |-> [r \in 1..Len(names) |-> [c \in 1..Len(names) |-> 0]]]

NoFrame == [index |-> <<>>, columns |-> <<>>, data |-> <<>>]

\* grid.as_matrix(): the array of the grid's values.  A grid of one dtype
\* hands out its own memory, so what the caller does to the array is done
\* to the grid.
as_matrix(grid) == grid.data

\* the grid grid once the array it shares holds A
WithArray(grid, A) == [grid EXCEPT !.data = A]

\* a graph constructor that rescales its argument in place
ArrayCleared(A) == [r \in DOMAIN A |-> [c \in DOMAIN A[r] |-> 0]]

\* the array after nx.from_numpy_matrix(A): the constructor only reads it
ArrayRead(A) == A

\* an update that keeps the grid symmetric: the mirrored cells grow as well
LocAddBoth(grid, row, cols) ==
    [grid EXCEPT !.data =
        [r \in DOMAIN grid.data |->
            [c \in DOMAIN grid.data[r] |->
                IF \/ grid.index[r] = row /\ grid.columns[c] \in cols
                   \/ grid.columns[c] = row /\ grid.index[r] \in cols
                THEN grid.data[r][c] + 1
                ELSE grid.data[r][c]]]]

\* grid.loc[row, cols] = grid.loc[row, cols] + 1: every cell whose row label is
\* row and whose column label is one of cols
LocAdd(grid, row, cols) ==
    [grid EXCEPT !.data =
        [r \in DOMAIN grid.data |->
            [c \in DOMAIN grid.data[r] |->
                IF grid.index[r] = row /\ grid.columns[c] \in cols
                THEN grid.data[r][c] + 1
                ELSE grid.data[r][c]]]]

----------------------------------------------------------------------------
(* networkx: the graph of a matrix and its PageRank.                       *)

NoEdges(n) == [u \in 1..n |-> [v \in 1..n |-> 0]]

\* nx.from_numpy_matrix(A) for an undirected graph: every non-zero entry
\* A[u][v], taken row by row, sets the weight of the edge {u, v}; a later
\* entry for the same edge replaces the earlier one.  k runs over the cells.
RECURSIVE AddEdges(_, _, _)
AddEdges(A, k, G) ==
    LET n == Len(A)
        u == ((k - 1) \div n) + 1
        v == ((k - 1) % n) + 1
    IN  IF k > n * n THEN G
        ELSE IF A[u][v] # 0
             THEN AddEdges(A, k + 1,
                           [G EXCEPT ![u][v] = A[u][v], ![v][u] = A[u][v]])
             ELSE AddEdges(A, k + 1, G)

\* a reading of the matrix that keeps the direction of every entry
DirectedMatrix(A) == A

from_numpy_matrix(A) == AddEdges(A, 1, NoEdges(Len(A)))

RECURSIVE SumTo(_, _)
SumTo(f, n) == IF n = 0 THEN 0 ELSE f[n] + SumTo(f, n - 1)

Abs(a) == IF a < 0 THEN -a ELSE a

\* alpha * y
Damp(y) == y - (((AlphaDen - AlphaNum) * y) \div AlphaDen)

\* the weighted out-degrees of the nodes 1 .. u of G
RECURSIVE Degrees(_, _)
Degrees(G, u) ==
    IF u = 0 THEN <<>> ELSE Append(Degrees(G, u - 1), SumTo(G[u], Len(G)))

\* x = dict.fromkeys(W, 1.0 / N), for the nodes 1 .. u
RECURSIVE Uniform(_, _)
Uniform(n, u) == IF u = 0 THEN <<>> ELSE Append(Uniform(n, u - 1), Scale \div n)

\* the dangling nodes giving nothing back
DangleMassLost(deg, xlast, u) == 0

\* sum(xlast[n] for n in dangling_nodes), over the nodes 1 .. u
RECURSIVE DangleMass(_, _, _)
DangleMass(deg, xlast, u) ==
    IF u = 0 THEN 0
    ELSE (IF deg[u] = 0 THEN xlast[u] ELSE 0) + DangleMass(deg, xlast, u - 1)

\* the nodes sending nothing along their edges
InflowNone(G, deg, xlast, v, u) == 0

\* what the nodes 1 .. u send to v: alpha * xlast[u] * W[u][v]
RECURSIVE Inflow(_, _, _, _, _)
Inflow(G, deg, xlast, v, u) ==
    IF u = 0 THEN 0
    ELSE (IF G[u][v] # 0 THEN Damp((xlast[u] \div deg[u]) * G[u][v]) ELSE 0)
         + Inflow(G, deg, xlast, v, u - 1)

\* One power iteration of nx.pagerank on the weighted graph G from xlast,
\* for the nodes 1 .. v.
RECURSIVE PowerStep(_, _, _, _)
PowerStep(G, deg, xlast, v) ==
    IF v = 0 THEN <<>>
    ELSE LET n == Len(G)
             danglesum == Damp(DangleMass(deg, xlast, n))
             restart == ((AlphaDen - AlphaNum) * (Scale \div AlphaDen)) \div n
         IN  Append(PowerStep(G, deg, xlast, v - 1),
                    Inflow(G, deg, xlast, v, n) + (danglesum \div n) + restart)

\* err = sum([abs(x[n] - xlast[n]) for n in x]), over the nodes 1 .. u
RECURSIVE Moved(_, _, _)
Moved(x, xlast, u) ==
    IF u = 0 THEN 0 ELSE Abs(x[u] - xlast[u]) + Moved(x, xlast, u - 1)

\* One pass of the loop "for _ in range(max_iter)": the new iterate, and
\* whether it moved less than N * tol from the last one.
Pass(G, deg, st) ==
    LET n == Len(G)
        x == PowerStep(G, deg, st.x, n)
    IN  [ok |-> Moved(x, st.x, n) < n * (Scale \div TolDen), x |-> x]

\* Up to k passes from st, stopping at the first pass that converged.
RECURSIVE Passes(_, _, _, _)
Passes(G, deg, st, k) ==
    IF st.ok \/ k = 0 THEN st
    ELSE IF k = 1 THEN Pass(G, deg, st)
         ELSE Passes(G, deg, Passes(G, deg, st, k \div 2), k - (k \div 2))

\* nx.pagerank(G, alpha=.85, tol=.00000001): the empty graph gets {}; a
\* graph whose iteration has not converged after max_iter passes raises
\* PowerIterationFailedConvergence (ok is FALSE).
pagerank(G) ==
    IF Len(G) = 0 THEN [ok |-> TRUE, x |-> <<>>]
    ELSE Passes(G, Degrees(G, Len(G)),
                [ok |-> FALSE, x |-> Uniform(Len(G), Len(G))],
                MaxIter)

----------------------------------------------------------------------------
(* The reporter: sorted(((ranks[i], s) for i, s in enumerate(nodes)),      *)
(* reverse=True)[:5].  Pairs compare as Python tuples: by score, then by   *)
(* node; tokens compare by index.                                          *)

\* The place of a node in the document, which orders it: Token.__lt__
\* compares the tokens' offsets and Span.__lt__ the spans' starts.
TokenPlace(t) == t
SpanPlace(d) == d.start

\* a comparison of the scores alone
ScoreLess(a, b) == a[1] < b[1]

\* (score, node) < (score, node) on the keys <<score, place>>: the first
\* components that differ decide
PairLess(a, b) == a[1] < b[1] \/ (a[1] = b[1] /\ a[2] < b[2])

\* index p put into the descending index list s, after every index whose
\* key is not below p's
RECURSIVE InsertDesc(_, _, _)
InsertDesc(keys, s, p) ==
    IF s = <<>> THEN <<p>>
    ELSE IF PairLess(keys[Head(s)], keys[p]) THEN <<p>> \o s
         ELSE <<Head(s)>> \o InsertDesc(keys, Tail(s), p)

\* the indices 1 .. n of keys in the order sorted(..., reverse=True) gives
RECURSIVE SortedReverse(_, _)
SortedReverse(keys, n) ==
    IF n = 0 THEN <<>> ELSE InsertDesc(keys, SortedReverse(keys, n - 1), n)

\* a sort that gives the sorted scores to the nodes in their old order
RankedMispaired(scores, nodes, places) ==
    LET keys == [k \in 1..Len(nodes) |-> <<scores[k], places[k]>>]
        order == SortedReverse(keys, Len(nodes))
    IN  [k \in 1..Len(nodes) |-> <<scores[order[k]], nodes[k]>>]

\* sorted(((ranks[i], s) for i, s in enumerate(nodes)), reverse=True), with
\* places[k] the place of nodes[k]
Ranked(scores, nodes, places) ==
    LET keys == [k \in 1..Len(nodes) |-> <<scores[k], places[k]>>]
        order == SortedReverse(keys, Len(nodes))
    IN  [k \in 1..Len(nodes) |-> <<scores[order[k]], nodes[order[k]]>>]

\* s[:k]
Take(s, k) == SubSeq(s, 1, PyIndex(Len(s), k))

TokenPlaces(nodes) == [k \in 1..Len(nodes) |-> TokenPlace(nodes[k])]
SpanPlaces(nodes) == [k \in 1..Len(nodes) |-> SpanPlace(nodes[k])]

----------------------------------------------------------------------------
(* Cell 3: the ranking of the sentences.  A sentence is the number of its  *)
(* text in string order, so that sentences compare as their strings do.    *)
(* similarity = data_counts * data_counts.T is symmetric; the tf-idf rows  *)
(* have length 1, so a sentence is as similar to itself as can be, or has  *)
(* no term left and is similar to nothing.                                 *)

\* the similarity of a sentence to itself, and of two sentences sharing terms
SimSelf == 2
SimShared == 1

\* the similarity matrices of n sentences, not all of them without terms
Similarities(n) ==
    {[i \in 1..n |-> [j \in 1..n |->
         IF i = j THEN d[i]
         ELSE IF d[i] = 0 \/ d[j] = 0 THEN 0
              ELSE o[<<Min(i, j), Max(i, j)>>]]] :
       d \in [1..n -> {0, SimSelf}] \ {[i \in 1..n |-> 0]},
       o \in [{q \in (1..n) \X (1..n) : q[1] < q[2]} -> {0, SimShared}]}

\* nx.from_scipy_sparse_matrix(similarity): an undirected graph with an edge
\* per stored entry
from_scipy_sparse_matrix(A) == AddEdges(A, 1, NoEdges(Len(A)))

Cell3Rank ==
    /\ todo # <<>> /\ Head(todo) = "c3_rank"
    /\ LET r == pagerank(from_scipy_sparse_matrix(similarity))
       IN  IF r.ok
           THEN /\ ranks' = r.x
                /\ todo' = Tail(todo)
                /\ error' = error
           ELSE /\ error' = "PowerIterationFailedConvergence"
                /\ todo' = <<>>
                /\ ranks' = ranks
    /\ UNCHANGED <<gatsby, sentVars, regVars, it, out, gatsby_filt, words, adjacency, ranked,
                   diVars, triVars>>

Cell3Report ==
    /\ todo # <<>> /\ Head(todo) = "c3_report"
    /\ ranked' = Ranked(ranks, sentences, sentences)
    /\ IF ranked' = <<>>
       THEN error' = "IndexError" /\ todo' = <<>> /\ out' = out
       ELSE error' = error /\ todo' = Tail(todo)
            /\ out' = Append(out, [cell |-> "c3", value |-> ranked'[1]])
    /\ UNCHANGED <<gatsby, sentVars, regVars, it, gatsby_filt, words, adjacency, ranks,
                   diVars, triVars>>

----------------------------------------------------------------------------
(* Cell 4: the unigram filter, the node set and the adjacency grid.        *)

\* word.is_stop==False and (word.pos_=='NOUN')
KeepUnigram(t) == t.is_stop = FALSE /\ t.pos_ = "NOUN"

\* [word for word in gatsby if ...]: the retained tokens, by index
FilterUnigrams(doc) ==
    SelectSeq([k \in 1..Len(doc) |-> k - 1], LAMBDA i : KeepUnigram(At(doc, i)))

\* a window one token short
UniEndShort(n, i) == Max(0, n - (n - (i + UniEndOffset - 1)))

\* end=max(0,len(gatsby)-(len(gatsby)-(i+5)))
UniEnd(n, i) == Max(0, n - (n - (i + UniEndOffset)))

\* a window that begins at the word itself
UniNextwordsSelf(n, i) == PySlice(n, i, UniEnd(n, i))

\* nextwords=gatsby[i+1:end]
UniNextwords(n, i) == PySlice(n, i + 1, UniEnd(n, i))

\* [nextwords[i] for i in range(len(nextwords)) if inset[i]]
Neighbors(nextwords, filt) ==
    SelectSeq(nextwords, LAMBDA x : \E k \in DOMAIN filt : filt[k] = x)

\* One pass of the loop body for token i.
UniBody(grid, doc, filt, i) ==
    IF \E k \in DOMAIN filt : filt[k] = i
    THEN LET neighbors == Neighbors(UniNextwords(Len(doc), i), filt)
         IN  IF neighbors # <<>> THEN LocAdd(grid, i, Range(neighbors)) ELSE grid
    ELSE grid

\* what a cell printed
Printed(cell, value) == [cell |-> cell, value |-> value]

Cell4Setup ==
    /\ todo # <<>> /\ Head(todo) = "c4_setup"
    /\ gatsby_filt' = FilterUnigrams(gatsby)
    /\ \E order \in SetOrders(Range(FilterUnigrams(gatsby))) :
          /\ words' = order
          /\ adjacency' = DataFrame(order)
    /\ it' = 0
    /\ todo' = Tail(todo)
    /\ UNCHANGED <<gatsby, sentVars, regVars, error, out, ranks, ranked, diVars, triVars>>

Cell4Loop ==
    /\ todo # <<>> /\ Head(todo) = "c4_loop"
    /\ it < Len(gatsby)
    /\ adjacency' = UniBody(adjacency, gatsby, gatsby_filt, it)
    /\ it' = it + 1
    /\ UNCHANGED <<gatsby, sentVars, regVars, todo, error, out, gatsby_filt, words, ranks, ranked,
                   diVars, triVars>>

Cell4Done ==
    /\ todo # <<>> /\ Head(todo) = "c4_loop"
    /\ it = Len(gatsby)
    /\ out' = Append(out, Printed("c4", "done!"))
    /\ todo' = Tail(todo)
    /\ UNCHANGED <<gatsby, sentVars, regVars, it, error, uniVars, diVars, triVars>>

(* Cell 5: ranking and the report.                                         *)

Cell5Rank ==
    /\ todo # <<>> /\ Head(todo) = "c5_rank"
    /\ LET r == pagerank(from_numpy_matrix(as_matrix(adjacency)))
       IN  IF r.ok
           THEN /\ ranks' = r.x
                /\ todo' = Tail(todo)
                /\ error' = error
           ELSE /\ error' = "PowerIterationFailedConvergence"
                /\ todo' = <<>>
                /\ ranks' = ranks
    /\ adjacency' = WithArray(adjacency, ArrayRead(as_matrix(adjacency)))
    /\ UNCHANGED <<gatsby, sentVars, regVars, it, out, gatsby_filt, words, ranked,
                   diVars, triVars>>

Cell5Report ==
    /\ todo # <<>> /\ Head(todo) = "c5_report"
    /\ ranked' = Ranked(ranks, words, TokenPlaces(words))
    /\ out' = Append(out, Printed("c5", Take(ranked', TopK)))
    /\ todo' = Tail(todo)
    /\ UNCHANGED <<gatsby, sentVars, regVars, it, error, gatsby_filt, words, adjacency, ranks,
                   diVars, triVars>>

----------------------------------------------------------------------------
(* Spans.  gatsby[a:b] is the span of the tokens a .. b-1; two spans are   *)
(* == exactly when they start and end at the same place; str(span) is the  *)
(* text of its tokens.                                                     *)

Span(n, a, b) == [start |-> PyIndex(n, a), end |-> PyIndex(n, b)]

\* token k of span d
SpanTok(doc, d, k) == At(doc, d.start + k)

\* str(d)
Str(doc, d) == [k \in 1..(d.end - d.start) |-> At(doc, d.start + k - 1).text]

\* "for i in range(len(gatsby)): ...append(gatsby[i:i+size])"
Windows(doc, size) == [k \in 1..Len(doc) |-> Span(Len(doc), k - 1, k - 1 + size)]

\* s[lo:hi] of a list
ListSlice(s, lo, hi) ==
    LET idx == PySlice(Len(s), lo, hi) IN [k \in DOMAIN idx |-> s[idx[k] + 1]]

\* x in lst
InList(x, lst) == \E k \in DOMAIN lst : lst[k] = x

\* adjacency.loc[row, c] += 1 for each c of neighbours in turn
RECURSIVE LocAddEach(_, _, _, _)
LocAddEach(grid, doc, row, neighbors) ==
    IF neighbors = <<>> THEN grid
    ELSE LocAddEach(LocAdd(grid, Str(doc, row), {Str(doc, Head(neighbors))}),
                    doc, row, Tail(neighbors))

----------------------------------------------------------------------------
(* Cells 7-10: digrams and their filters.                                  *)

\* the windows the list keeps: new_gats[:-2], trig_gats[:-2]
DropLast == -2

\* digram[0].is_punct==False and digram[1].is_punct==False
DigramNoPunct(doc, d) ==
    SpanTok(doc, d, 0).is_punct = FALSE /\ SpanTok(doc, d, 1).is_punct = FALSE

\* digram[0].is_stop==False and digram[1].is_stop==False
DigramNoStop(doc, d) ==
    SpanTok(doc, d, 0).is_stop = FALSE /\ SpanTok(doc, d, 1).is_stop = FALSE

\* digram[0].pos_=='ADJ' and digram[1].pos_=='NOUN'
DigramAdjNoun(doc, d) ==
    SpanTok(doc, d, 0).pos_ = "ADJ" /\ SpanTok(doc, d, 1).pos_ = "NOUN"

\* the digrams that enter the punctuation filter
DigramCandidates(lst) == ListSlice(lst, 0, DropLast)

Cell7 ==
    /\ todo # <<>> /\ Head(todo) = "c7"
    /\ new_gats' = Windows(gatsby, 2)
    /\ todo' = Tail(todo)
    /\ UNCHANGED <<gatsby, sentVars, regVars, it, error, out, uniVars, triVars,
                   second_gats, shorter_gats, new_gats_filt, new_gats_words,
                   adjacency_digr, ranks_digr, ranked_digr, digr_loop>>

\* cell 8 run as the step named step
Run8(step) ==
    /\ todo # <<>> /\ Head(todo) = step
    /\ second_gats' = SelectSeq(DigramCandidates(new_gats),
                                LAMBDA d : DigramNoPunct(gatsby, d))
    /\ todo' = Tail(todo)
    /\ UNCHANGED <<gatsby, sentVars, regVars, it, error, out, uniVars, triVars,
                   new_gats, shorter_gats, new_gats_filt, new_gats_words,
                   adjacency_digr, ranks_digr, ranked_digr, digr_loop>>

Cell8 == Run8("c8")

\* cell 8 executed once more
Cell8Again == Run8("c8_again")

\* cell 9 run as the step named step
Run9(step) ==
    /\ todo # <<>> /\ Head(todo) = step
    /\ shorter_gats' = SelectSeq(second_gats, LAMBDA d : DigramNoStop(gatsby, d))
    /\ todo' = Tail(todo)
    /\ UNCHANGED <<gatsby, sentVars, regVars, it, error, out, uniVars, triVars,
                   new_gats, second_gats, new_gats_filt, new_gats_words,
                   adjacency_digr, ranks_digr, ranked_digr, digr_loop>>

Cell9 == Run9("c9")

\* cell 9 executed once more
Cell9Again == Run9("c9_again")

Cell10 ==
    /\ todo # <<>> /\ Head(todo) = "c10"
    /\ new_gats_filt' = SelectSeq(shorter_gats, LAMBDA d : DigramAdjNoun(gatsby, d))
    /\ new_gats_words' \in SetOrders(Range(new_gats_filt'))
    /\ todo' = Tail(todo)
    /\ UNCHANGED <<gatsby, sentVars, regVars, it, error, out, uniVars, triVars,
                   new_gats, second_gats, shorter_gats,
                   adjacency_digr, ranks_digr, ranked_digr, digr_loop>>

(* Cell 12: the digram adjacency grid.                                     *)

\* "end = ... (i+15)": the digram window reaches 14 digrams ahead
DiEndOffset == 15

\* end=max(0,len(shorter_gats)-(len(shorter_gats)-(i+15)))
DiEnd(n, i) == Max(0, n - (n - (i + DiEndOffset)))

\* the digram loop walking every digram of the text
DiScannedAll == new_gats

\* the sequence the digram loop walks and takes its windows from
DiScanned == shorter_gats

\* the value of a name bound to the integer k
IntObj(k) == [int |-> k]

\* the names i, digr, end, nextwords and neighbors before the loop has run
NoLoop == [i |-> IntObj(-1), digr |-> <<>>, end |-> 0, nextwords |-> <<>>,
           neighbors |-> <<>>]

\* a loop that reads its position back from the name i
EnumerateFromName(counter, name) ==
    IF "start" \in DOMAIN name THEN name.start ELSE counter

\* for i,digr in enumerate(shorter_gats): the position comes from the
\* counter enumerate keeps, whatever the name i was bound to meanwhile
Enumerate(counter, name) == counter

\* the names after one pass at position pos: "for i in neighbors" leaves i
\* bound to the last neighbour; the names of the list comprehensions are
\* their own (Python 3)
DiNames(scan, filt, pos, old) ==
    LET digr == scan[pos + 1]
    IN  IF InList(digr, filt)
        THEN LET end == DiEnd(Len(scan), pos)
                 nextwords == ListSlice(scan, pos + 1, end)
                 neighbors == SelectSeq(nextwords, LAMBDA x : InList(x, filt))
             IN  [i |-> IF neighbors # <<>> THEN neighbors[Len(neighbors)]
                        ELSE IntObj(pos),
                  digr |-> digr, end |-> end, nextwords |-> nextwords,
                  neighbors |-> neighbors]
        ELSE [old EXCEPT !.i = IntObj(pos), !.digr = digr]

\* One pass of the loop body for position i of the walked sequence scan.
DiBody(grid, doc, scan, filt, i) ==
    LET digr == scan[i + 1]
    IN  IF InList(digr, filt)
        THEN LET nextwords == ListSlice(scan, i + 1, DiEnd(Len(scan), i))
                 neighbors == SelectSeq(nextwords, LAMBDA x : InList(x, filt))
             IN  LocAddEach(grid, doc, digr, neighbors)
        ELSE grid

\* the labels of the nodes taken in the opposite order
LabelsReversed(doc, nodes) ==
    [k \in DOMAIN nodes |-> Str(doc, nodes[Len(nodes) + 1 - k])]

\* [str(i) for i in nodes]
Labels(doc, nodes) == [k \in DOMAIN nodes |-> Str(doc, nodes[k])]

Cell12Setup ==
    /\ todo # <<>> /\ Head(todo) = "c12_setup"
    /\ adjacency_digr' = DataFrame(Labels(gatsby, new_gats_words))
    /\ it' = 0
    /\ todo' = Tail(todo)
    /\ UNCHANGED <<gatsby, sentVars, regVars, error, out, uniVars, triVars,
                   new_gats, second_gats, shorter_gats, new_gats_filt, new_gats_words,
                   ranks_digr, ranked_digr, digr_loop>>

Cell12Loop ==
    /\ todo # <<>> /\ Head(todo) = "c12_loop"
    /\ it < Len(DiScanned)
    /\ LET pos == Enumerate(it, digr_loop.i)
       IN  /\ adjacency_digr' = DiBody(adjacency_digr, gatsby, DiScanned, new_gats_filt, pos)
           /\ digr_loop' = DiNames(DiScanned, new_gats_filt, pos, digr_loop)
    /\ it' = it + 1
    /\ UNCHANGED <<gatsby, sentVars, regVars, todo, error, out, uniVars, triVars,
                   new_gats, second_gats, shorter_gats, new_gats_filt, new_gats_words,
                   ranks_digr, ranked_digr>>

Cell12Done ==
    /\ todo # <<>> /\ Head(todo) = "c12_loop"
    /\ it = Len(DiScanned)
    /\ out' = Append(out, Printed("c12", "done!"))
    /\ todo' = Tail(todo)
    /\ UNCHANGED <<gatsby, sentVars, regVars, it, error, uniVars, diVars, triVars>>

(* Cell 14: ranking and the report of the digrams.                         *)

Cell14Rank ==
    /\ todo # <<>> /\ Head(todo) = "c14_rank"
    /\ LET r == pagerank(from_numpy_matrix(as_matrix(adjacency_digr)))
       IN  IF r.ok
           THEN /\ ranks_digr' = r.x
                /\ todo' = Tail(todo)
                /\ error' = error
           ELSE /\ error' = "PowerIterationFailedConvergence"
                /\ todo' = <<>>
                /\ ranks_digr' = ranks_digr
    /\ adjacency_digr' = WithArray(adjacency_digr, ArrayRead(as_matrix(adjacency_digr)))
    /\ UNCHANGED <<gatsby, sentVars, regVars, it, out, uniVars, triVars,
                   new_gats, second_gats, shorter_gats, new_gats_filt, new_gats_words,
                   ranked_digr, digr_loop>>

Cell14Report ==
    /\ todo # <<>> /\ Head(todo) = "c14_report"
    /\ ranked_digr' = Ranked(ranks_digr, new_gats_words, SpanPlaces(new_gats_words))
    /\ out' = Append(out, Printed("c14", Take(ranked_digr', TopK)))
    /\ todo' = Tail(todo)
    /\ UNCHANGED <<gatsby, sentVars, regVars, it, error, uniVars, triVars,
                   new_gats, second_gats, shorter_gats, new_gats_filt, new_gats_words,
                   adjacency_digr, ranks_digr, digr_loop>>

----------------------------------------------------------------------------
(* Cells 15-18: trigrams and their filters.                                *)

\* no token of the trigram is punctuation
TrigramNoPunct(doc, t) ==
    /\ SpanTok(doc, t, 0).is_punct = FALSE
    /\ SpanTok(doc, t, 1).is_punct = FALSE
    /\ SpanTok(doc, t, 2).is_punct = FALSE

\* trigram[2].is_stop==False and (one of the three is a NOUN)
KeepTrigram(doc, t) ==
    /\ SpanTok(doc, t, 2).is_stop = FALSE
    /\ \/ SpanTok(doc, t, 0).pos_ = "NOUN"
       \/ SpanTok(doc, t, 1).pos_ = "NOUN"
       \/ SpanTok(doc, t, 2).pos_ = "NOUN"

\* the trigrams that enter the punctuation filter
TrigramCandidates(lst) == ListSlice(lst, 0, DropLast)

Cell15 ==
    /\ todo # <<>> /\ Head(todo) = "c15"
    /\ trig_gats' = Windows(gatsby, 3)
    /\ todo' = Tail(todo)
    /\ UNCHANGED <<gatsby, sentVars, regVars, it, error, out, uniVars, diVars,
                   trig_gats_filt, trig_gats_words,
                   adjacency_trigr, ranks_trigr, ranked_trigr>>

\* cell 17 run as the step named step
Run17(step) ==
    /\ todo # <<>> /\ Head(todo) = step
    /\ trig_gats' = SelectSeq(TrigramCandidates(trig_gats),
                              LAMBDA t : TrigramNoPunct(gatsby, t))
    /\ todo' = Tail(todo)
    /\ UNCHANGED <<gatsby, sentVars, regVars, it, error, out, uniVars, diVars,
                   trig_gats_filt, trig_gats_words,
                   adjacency_trigr, ranks_trigr, ranked_trigr>>

Cell17 == Run17("c17")

\* cell 17 executed once more
Cell17Again == Run17("c17_again")

Cell18 ==
    /\ todo # <<>> /\ Head(todo) = "c18"
    /\ trig_gats_filt' = SelectSeq(trig_gats, LAMBDA t : KeepTrigram(gatsby, t))
    /\ trig_gats_words' \in SetOrders(Range(trig_gats_filt'))
    /\ todo' = Tail(todo)
    /\ UNCHANGED <<gatsby, sentVars, regVars, it, error, out, uniVars, diVars,
                   trig_gats, adjacency_trigr, ranks_trigr, ranked_trigr>>

(* Cell 19: the trigram adjacency grid.                                    *)

\* "end = ... (i+5)": the trigram window reaches 4 trigrams ahead
TriEndOffset == 5

\* end=max(0,len(trig_gats)-(len(trig_gats)-(i+5)))
TriEnd(n, i) == Max(0, n - (n - (i + TriEndOffset)))

\* the sequence the trigram loop walks: "for i,trigr in enumerate(shorter_gats)"
TriScanned == shorter_gats

\* One pass of the loop body for position i of the walked sequence scan; the
\* windows are taken from the list window.
TriBody(grid, doc, scan, window, filt, i) ==
    LET trigr == scan[i + 1]
    IN  IF InList(trigr, filt)
        THEN LET nextwords == ListSlice(window, i + 1, TriEnd(Len(window), i))
                 neighbors == SelectSeq(nextwords, LAMBDA x : InList(x, filt))
             IN  LocAddEach(grid, doc, trigr, neighbors)
        ELSE grid

Cell19Setup ==
    /\ todo # <<>> /\ Head(todo) = "c19_setup"
    /\ adjacency_trigr' = DataFrame(Labels(gatsby, trig_gats_words))
    /\ it' = 0
    /\ todo' = Tail(todo)
    /\ UNCHANGED <<gatsby, sentVars, regVars, error, out, uniVars, diVars,
                   trig_gats, trig_gats_filt, trig_gats_words,
                   ranks_trigr, ranked_trigr>>

Cell19Loop ==
    /\ todo # <<>> /\ Head(todo) = "c19_loop"
    /\ it < Len(TriScanned)
    /\ adjacency_trigr' =
          TriBody(adjacency_trigr, gatsby, TriScanned, trig_gats, trig_gats_filt, it)
    /\ it' = it + 1
    /\ UNCHANGED <<gatsby, sentVars, regVars, todo, error, out, uniVars, diVars,
                   trig_gats, trig_gats_filt, trig_gats_words,
                   ranks_trigr, ranked_trigr>>

Cell19Done ==
    /\ todo # <<>> /\ Head(todo) = "c19_loop"
    /\ it = Len(TriScanned)
    /\ out' = Append(out, Printed("c19", "done!"))
    /\ todo' = Tail(todo)
    /\ UNCHANGED <<gatsby, sentVars, regVars, it, error, uniVars, diVars, triVars>>

(* Cell 20: ranking and the report of the trigrams.                        *)

Cell20Rank ==
    /\ todo # <<>> /\ Head(todo) = "c20_rank"
    /\ LET r == pagerank(from_numpy_matrix(as_matrix(adjacency_trigr)))
       IN  IF r.ok
           THEN /\ ranks_trigr' = r.x
                /\ todo' = Tail(todo)
                /\ error' = error
           ELSE /\ error' = "PowerIterationFailedConvergence"
                /\ todo' = <<>>
                /\ ranks_trigr' = ranks_trigr
    /\ adjacency_trigr' = WithArray(adjacency_trigr, ArrayRead(as_matrix(adjacency_trigr)))
    /\ UNCHANGED <<gatsby, sentVars, regVars, it, out, uniVars, diVars,
                   trig_gats, trig_gats_filt, trig_gats_words,
                   ranked_trigr>>

Cell20Report ==
    /\ todo # <<>> /\ Head(todo) = "c20_report"
    /\ ranked_trigr' = Ranked(ranks_trigr, trig_gats_words, SpanPlaces(trig_gats_words))
    /\ out' = Append(out, Printed("c20", Take(ranked_trigr', TopK)))
    /\ todo' = Tail(todo)
    /\ UNCHANGED <<gatsby, sentVars, regVars, it, error, uniVars, diVars,
                   trig_gats, trig_gats_filt, trig_gats_words,
                   adjacency_trigr, ranks_trigr>>

----------------------------------------------------------------------------
(* The regression notebook (src/3.3.3+Lasso+Regression.ipynb): the sweep   *)
(* of the regularisation strength.  The feature set X_train2 is one column *)
(* of small integers and Y_train a column of the same length.  Strength    *)
(* number k of the sweep is alpha = k / LambdaDen.  Both estimators centre *)
(* the data (fit_intercept=True); n * (v - mean(v)) is an integer column,  *)
(* and every coefficient and score is an exact fraction num / den with     *)
(* den > 0, so that "exactly zero" means num = 0.                          *)

\* the values of a data column
Values == 0..1

\* the column of a feature set of one column
Feature(X) == [i \in DOMAIN X.data |-> X.data[i][1]]

\* a range that holds its stop value too
ArangeClosed(first, stop, step) ==
    [k \in 1..Max(0, (stop - first) \div step + 1) |-> first + (k - 1) * step]

\* np.arange(first, stop, step) for a positive step: the
\* ceil((stop - first) / step) values first, first + step, ... below stop
np_arange(first, stop, step) ==
    [k \in 1..Max(0, (stop - first + step - 1) \div step) |-> first + (k - 1) * step]

\* np.arange(0.01, 1, 0.01), in units of 1 / LambdaDen
Strengths == np_arange(1, LambdaDen, 1)

Frac(num, den) == [num |-> num, den |-> den]

Sign(z) == IF z > 0 THEN 1 ELSE IF z < 0 THEN -1 ELSE 0

\* n * (v - v.mean())
Centred(v) == [i \in DOMAIN v |-> Len(v) * v[i] - SumTo(v, Len(v))]

\* np.dot(a, b)
np_dot(a, b) == SumTo([i \in DOMAIN a |-> a[i] * b[i]], Len(a))

\* LambdaDen * n^2 * (X_c . y_c) and LambdaDen * n^2 * (X_c . X_c)
Rho(X, y) == LambdaDen * np_dot(Centred(X), Centred(y))
NormCol(X) == LambdaDen * np_dot(Centred(X), Centred(X))

\* LambdaDen * n^2 * (n * alpha): the L1 threshold of coordinate descent,
\* whose objective is ||y - Xw||^2 / (2n) + alpha * |w|
L1Penalty(n, k) == n * n * n * k

\* LambdaDen * n^2 * alpha: the L2 term of the ridge normal equation
L2Penalty(n, k) == n * n * k

\* a fit that keeps the whole least-squares step
KeepAll(z, t) == z

\* fsign(tmp) * fmax(fabs(tmp) - alpha, 0)
SoftThreshold(z, t) == Sign(z) * Max(Abs(z) - t, 0)

\* coef_ of linear_model.Lasso(alpha=k/LambdaDen).fit(X, y): coordinate
\* descent from w = 0; with one column the first update is the minimiser
\* and the second pass changes nothing.  A column of zero norm is skipped.
LassoCoef(X, y, k) ==
    IF NormCol(X) = 0 THEN Frac(0, 1)
    ELSE Frac(SoftThreshold(Rho(X, y), L1Penalty(Len(y), k)), NormCol(X))

\* coef_ of linear_model.Ridge(alpha=k/LambdaDen, fit_intercept=True)
\* .fit(X, y): the solution of (X_c'X_c + alpha) w = X_c'y_c
RidgeCoef(X, y, k) == Frac(Rho(X, y), NormCol(X) + L2Penalty(Len(y), k))

\* intercept_ = y.mean() - X.mean() * coef_
Intercept(X, y, w) ==
    Frac(SumTo(y, Len(y)) * w.den - SumTo(X, Len(X)) * w.num, Len(y) * w.den)

\* the fitted estimator
Fitted(X, y, k, w) ==
    [alpha |-> Frac(k, LambdaDen), coef_ |-> w, intercept_ |-> Intercept(X, y, w)]

\* (n * den)^2 times the residual sum of squares of the predictions
ResidualSS(X, y, w) ==
    SumTo([i \in DOMAIN y |->
             (Centred(y)[i] * w.den - Centred(X)[i] * w.num)
             * (Centred(y)[i] * w.den - Centred(X)[i] * w.num)], Len(y))

\* (n * den)^2 times the total sum of squares of y
TotalSS(y, w) == w.den * w.den * np_dot(Centred(y), Centred(y))

\* estimator.score(X, y): r2_score, which is 1.0 for a perfect prediction
\* of a constant y and 0.0 for an imperfect one
Score(X, y, w) ==
    IF TotalSS(y, w) = 0
    THEN IF ResidualSS(X, y, w) = 0 THEN Frac(1, 1) ELSE Frac(0, 1)
    ELSE Frac(TotalSS(y, w) - ResidualSS(X, y, w), TotalSS(y, w))

\* no estimator has been fitted
NoModel == [alpha |-> Frac(0, 1), coef_ |-> Frac(0, 1), intercept_ |-> Frac(0, 1)]

\* r2_scores_lasso = []; r2_scores_ridge = []; lambds = []
SweepSetup ==
    /\ todo # <<>> /\ Head(todo) = "sweep_setup"
    /\ r2_scores_lasso' = <<>> /\ r2_scores_ridge' = <<>> /\ lambds' = <<>>
    /\ it' = 1
    /\ todo' = Tail(todo)
    /\ UNCHANGED <<gatsby, sentVars, prepVars, plotVars, lassBig, ridgeregrBig,
                   error, out, uniVars, diVars, triVars>>

\* one pass of "for lambd in np.arange(0.01, 1, 0.01)"; it is the place of
\* lambd in the range
SweepLoop ==
    /\ todo # <<>> /\ Head(todo) = "sweep_loop"
    /\ it <= Len(Strengths)
    /\ LET lambd == Strengths[it]
           X == Feature(X_train2)
       IN  /\ lassBig' = Fitted(X, Y_train, lambd, LassoCoef(X, Y_train, lambd))
           /\ lambds' = Append(lambds, Frac(lambd, LambdaDen))
           /\ r2_scores_lasso' =
                 Append(r2_scores_lasso, Score(X, Y_train, lassBig'.coef_))
           /\ ridgeregrBig' = Fitted(X, Y_train, lambd, RidgeCoef(X, Y_train, lambd))
           /\ r2_scores_ridge' =
                 Append(r2_scores_ridge, Score(X, Y_train, ridgeregrBig'.coef_))
    /\ it' = it + 1
    /\ UNCHANGED <<gatsby, sentVars, prepVars, plotVars, todo, error, out,
                   uniVars, diVars, triVars>>

\* the range is exhausted
SweepDone ==
    /\ todo # <<>> /\ Head(todo) = "sweep_loop"
    /\ it > Len(Strengths)
    /\ todo' = Tail(todo)
    /\ UNCHANGED <<gatsby, sentVars, regVars, it, error, out,
                   uniVars, diVars, triVars>>

\* no figure has been drawn
NoFigure == [lines |-> <<>>, legend |-> <<>>]

\* pd.DataFrame(lambds) with the columns 'lambdas', 'r2_scores_lasso' and
\* 'r2_scores_ridge'; a list of another length than the frame is a ValueError,
\* and so is the column name given to the frame of an empty list
CellModels ==
    /\ todo # <<>> /\ Head(todo) = "models"
    /\ IF lambds = <<>> \/ Len(r2_scores_lasso) # Len(lambds)
          \/ Len(r2_scores_ridge) # Len(lambds)
       THEN error' = "ValueError" /\ todo' = <<>> /\ df_models' = df_models
       ELSE /\ df_models' =
                 [index |-> [k \in DOMAIN lambds |-> k - 1],
                  columns |-> <<"lambdas", "r2_scores_lasso", "r2_scores_ridge">>,
                  data |-> [k \in DOMAIN lambds |->
                              <<lambds[k], r2_scores_lasso[k], r2_scores_ridge[k]>>]]
            /\ error' = error /\ todo' = Tail(todo)
    /\ UNCHANGED <<gatsby, sentVars, prepVars, fitVars, labels, figure, it, out,
                   uniVars, diVars, triVars>>

\* labels = []
CellLabels ==
    /\ todo # <<>> /\ Head(todo) = "labels"
    /\ labels' = <<>>
    /\ todo' = Tail(todo)
    /\ UNCHANGED <<gatsby, sentVars, prepVars, fitVars, df_models, figure, it, error, out,
                   uniVars, diVars, triVars>>

\* The plotting cell: a new figure with one line per column of
\* df_models.columns[1:], each name appended to labels, and plt.legend(labels),
\* which gives the lines the first labels of the list, one each.
CellPlot ==
    /\ todo # <<>> /\ Head(todo) = "plot"
    /\ LET plot_data == ListSlice(df_models.columns, 1, Len(df_models.columns))
       IN  /\ labels' = labels \o plot_data
           /\ figure' = [lines |-> plot_data,
                         legend |-> Take(labels', Len(plot_data))]
    /\ todo' = Tail(todo)
    /\ UNCHANGED <<gatsby, sentVars, prepVars, fitVars, df_models, it, error, out,
                   uniVars, diVars, triVars>>

----------------------------------------------------------------------------
(* The regression notebook's first cell: the split and the feature sets.   *)

\* the target column
Target == "income"

\* the columns of Default.csv without its index column
Loaded == <<"default", "student", "balance", Target>>

\* the place of the column name among the columns of grid
ColumnPlace(grid, name) == CHOOSE c \in DOMAIN grid.columns : grid.columns[c] = name

\* grid[name]: the values of a column, row by row
Column(grid, name) == [r \in DOMAIN grid.data |-> grid.data[r][ColumnPlace(grid, name)]]

\* grid.iloc[lo:hi, :].copy(): the rows at the places lo .. hi-1, with their
\* labels, in a frame of its own
iloc(grid, lo, hi) ==
    [index |-> ListSlice(grid.index, lo, hi), columns |-> grid.columns,
     data |-> ListSlice(grid.data, lo, hi)]

\* a selection that keeps every column
KeepColumns(grid, names) == grid

\* grid.loc[:, ~(grid.columns).isin(names)]: a new frame of the columns
\* whose name is not in names, in their order
DropColumns(grid, names) ==
    LET keep == SelectSeq([c \in DOMAIN grid.columns |-> c],
                          LAMBDA c : grid.columns[c] \notin names)
    IN  [index |-> grid.index,
         columns |-> [k \in DOMAIN keep |-> grid.columns[keep[k]]],
         data |-> [r \in DOMAIN grid.data |->
                     [k \in DOMAIN keep |-> grid.data[r][keep[k]]]]]

\* grid[name] = vals: the column name, new at the right end of the columns
\* or replaced where it stands
SetColumn(grid, name, vals) ==
    IF InList(name, grid.columns)
    THEN [grid EXCEPT !.data =
            [r \in DOMAIN grid.data |->
                [grid.data[r] EXCEPT ![ColumnPlace(grid, name)] = vals[r]]]]
    ELSE [grid EXCEPT !.columns = Append(grid.columns, name),
                      !.data = [r \in DOMAIN grid.data |-> Append(grid.data[r], vals[r])]]

\* the product of two columns, row by row
Times(a, b) == [r \in DOMAIN a |-> a[r] * b[r]]

\* (column + 100) ** .5, kept as the root of an integer
Sqrt100(a) == [r \in DOMAIN a |-> [sqrt |-> a[r] + 100]]

\* (column + 100) ** 2 and (column + 100) ** 3
Square100(a) == [r \in DOMAIN a |-> (a[r] + 100) * (a[r] + 100)]
Cube100(a) == [r \in DOMAIN a |-> (a[r] + 100) * (a[r] + 100) * (a[r] + 100)]

\* the six engineered columns, added to the frame part one after the other
Engineered(part) ==
    LET p1 == SetColumn(part, "balance_student",
                        Times(Column(part, "balance"), Column(part, "student")))
        p2 == SetColumn(p1, "balance_default",
                        Times(Column(p1, "balance"), Column(p1, "default")))
        p3 == SetColumn(p2, "student_default",
                        Times(Column(p2, "student"), Column(p2, "default")))
        p4 == SetColumn(p3, "balance_sqrt", Sqrt100(Column(p3, "balance")))
        p5 == SetColumn(p4, "balance2", Square100(Column(p4, "balance")))
    IN  SetColumn(p5, "balance3", Cube100(Column(p5, "balance")))

\* a split that gives the odd row to the training part
HalfUp(n) == (n + 1) \div 2

\* int(n / 2)
Half(n) == n \div 2

\* trainsize, df_test and df_train
PrepSplit ==
    /\ todo # <<>> /\ Head(todo) = "split"
    /\ trainsize' = Half(Len(df.data))
    /\ df_test' = iloc(df, trainsize', Len(df.data))
    /\ df_train' = iloc(df, 0, trainsize')
    /\ todo' = Tail(todo)
    /\ UNCHANGED <<gatsby, sentVars, df, X_train, X_train2, Y_train, X_test, X_test2, Y_test,
                   fitVars, plotVars, it, error, out, uniVars, diVars, triVars>>

\* Y_train, X_train, the engineered columns of df_train, X_train2
PrepTrain ==
    /\ todo # <<>> /\ Head(todo) = "train"
    /\ Y_train' = Column(df_train, Target)
    /\ X_train' = DropColumns(df_train, {Target})
    /\ df_train' = Engineered(df_train)
    /\ X_train2' = DropColumns(df_train', {Target})
    /\ todo' = Tail(todo)
    /\ UNCHANGED <<gatsby, sentVars, df, trainsize, df_test, X_test, X_test2, Y_test,
                   fitVars, plotVars, it, error, out, uniVars, diVars, triVars>>

\* Y_test, X_test, the engineered columns of df_test, X_test2
PrepTest ==
    /\ todo # <<>> /\ Head(todo) = "test"
    /\ Y_test' = Column(df_test, Target)
    /\ X_test' = DropColumns(df_test, {Target})
    /\ df_test' = Engineered(df_test)
    /\ X_test2' = DropColumns(df_test', {Target})
    /\ todo' = Tail(todo)
    /\ UNCHANGED <<gatsby, sentVars, df, trainsize, df_train, X_train, X_train2, Y_train,
                   fitVars, plotVars, it, error, out, uniVars, diVars, triVars>>

----------------------------------------------------------------------------
(* Runs of the notebook.                                                   *)

Count(doc, t) == Cardinality({k \in DOMAIN doc : doc[k] = t})

Repeat(t, n) == [k \in 1..n |-> t]

\* the text "The cat sat. The dog ran."
TwoSentences == <<The, Cat, Sat, Dot, The, Dog, Ran, Dot>>

\* documents of the unigram section
UniDocs ==
    {d \in SeqsUpTo({Cat, The}, MaxLen) : Count(d, Cat) <= MaxNodes}
    \cup SeqsUpTo(Lexicon, MaxShort)
    \cup {TwoSentences}

\* the regression notebook has not been run
NoFits ==
    /\ lambds = <<>> /\ r2_scores_lasso = <<>> /\ r2_scores_ridge = <<>>
    /\ lassBig = NoModel /\ ridgeregrBig = NoModel
    /\ df_models = NoFrame /\ labels = <<>> /\ figure = NoFigure

NoData ==
    /\ df = NoFrame /\ trainsize = 0 /\ df_train = NoFrame /\ df_test = NoFrame
    /\ X_train = NoFrame /\ X_train2 = NoFrame /\ Y_train = <<>>
    /\ X_test = NoFrame /\ X_test2 = NoFrame /\ Y_test = <<>>
    /\ NoFits

\* the text notebook has not been run
NoText ==
    /\ gatsby = <<>>
    /\ sentences = <<>> /\ similarity = <<>>
    /\ gatsby_filt = <<>> /\ words = <<>> /\ adjacency = NoFrame
    /\ ranks = <<>> /\ ranked = <<>>
    /\ new_gats = <<>> /\ second_gats = <<>> /\ shorter_gats = <<>>
    /\ new_gats_filt = <<>> /\ new_gats_words = <<>> /\ adjacency_digr = NoFrame
    /\ ranks_digr = <<>> /\ ranked_digr = <<>> /\ digr_loop = NoLoop
    /\ trig_gats = <<>> /\ trig_gats_filt = <<>> /\ trig_gats_words = <<>>
    /\ adjacency_trigr = NoFrame /\ ranks_trigr = <<>> /\ ranked_trigr = <<>>

Fresh ==
    /\ it = 0 /\ error = "" /\ out = <<>>
    /\ sentences = <<>> /\ similarity = <<>>
    /\ NoData
    /\ gatsby_filt = <<>> /\ words = <<>> /\ adjacency = NoFrame
    /\ ranks = <<>> /\ ranked = <<>>
    /\ new_gats = <<>> /\ second_gats = <<>> /\ shorter_gats = <<>>
    /\ new_gats_filt = <<>> /\ new_gats_words = <<>> /\ adjacency_digr = NoFrame
    /\ ranks_digr = <<>> /\ ranked_digr = <<>> /\ digr_loop = NoLoop
    /\ trig_gats = <<>> /\ trig_gats_filt = <<>> /\ trig_gats_words = <<>>
    /\ adjacency_trigr = NoFrame /\ ranks_trigr = <<>> /\ ranked_trigr = <<>>

UniSteps == <<"c4_setup", "c4_loop", "c5_rank", "c5_report">>

InitUni == gatsby \in UniDocs /\ todo = UniSteps /\ Fresh

NextUni == Cell4Setup \/ Cell4Loop \/ Cell4Done \/ Cell5Rank \/ Cell5Report

SpecUni == InitUni /\ [][NextUni]_vars

\* most nouns of a document of the report runs
MaxRep == 6

\* documents with more keywords than the report shows: rows of one noun
RepDocs == {Repeat(Cat, n) : n \in 0..MaxRep}

InitRep == gatsby \in RepDocs /\ todo = UniSteps /\ Fresh

\* the unigram section run on the documents of many keywords
SpecRep == InitRep /\ [][NextUni]_vars

\* most filler tokens between the two phrases of a digram document
MaxGap == 15
\* longest two-word-vocabulary document of the trigram section
MaxTri == 5

\* most adjective-noun phrases of a document of phrases
MaxDup == 4

\* the text "big n1 big n2 ..." of the nouns ns
RECURSIVE Phrases(_)
Phrases(ns) == IF ns = <<>> THEN <<>> ELSE <<Big, Head(ns)>> \o Phrases(Tail(ns))

\* documents of the digram section: short ones over the whole vocabulary,
\* two adjective-noun phrases with a ran's and b the's between them, and
\* rows of the phrases "big cat" and "big dog", "big cat" first, followed by
\* one more word
DiDocs ==
    SeqsUpTo(Lexicon, MaxShort)
    \cup {<<Big, Cat>> \o Repeat(Ran, ab[1]) \o Repeat(The, ab[2]) \o <<Big, n, The>> :
            ab \in {x \in (0..MaxGap) \X (0..MaxGap) : x[1] + x[2] <= MaxGap},
            n \in {Cat, Dog}}
    \cup {Phrases(<<Cat>> \o ns) \o <<Ran>> : ns \in SeqsUpTo({Cat, Dog}, MaxDup - 1)}

DiSteps == <<"c7", "c8", "c9", "c10", "c12_setup", "c12_loop", "c14_rank", "c14_report">>

InitDi == gatsby \in DiDocs /\ todo = DiSteps /\ Fresh

NextDi ==
    \/ Cell7 \/ Cell8 \/ Cell9 \/ Cell10
    \/ Cell12Setup \/ Cell12Loop \/ Cell12Done
    \/ Cell14Rank \/ Cell14Report

SpecDi == InitDi /\ [][NextDi]_vars

\* documents of the trigram section
TriDocs == SeqsUpTo({Cat, The}, MaxTri) \cup SeqsUpTo(Lexicon, MaxShort)

TriSteps == <<"c7", "c8", "c9", "c15", "c17", "c18",
              "c19_setup", "c19_loop", "c20_rank", "c20_report">>

InitTri == gatsby \in TriDocs /\ todo = TriSteps /\ Fresh

NextTri ==
    \/ Cell7 \/ Cell8 \/ Cell9
    \/ Cell15 \/ Cell17 \/ Cell18
    \/ Cell19Setup \/ Cell19Loop \/ Cell19Done
    \/ Cell20Rank \/ Cell20Report

SpecTri == InitTri /\ [][NextTri]_vars

\* most sentences of a text
MaxSent == 3

\* n sentences of different texts in every order, and n times one sentence
SentenceLists(n) == SetOrders(1..n) \cup {[k \in 1..n |-> 1]}

InitSent ==
    /\ gatsby = <<>> /\ todo = <<"c3_rank", "c3_report">>
    /\ it = 0 /\ error = "" /\ out = <<>>
    /\ \E n \in 2..MaxSent :
          /\ sentences \in SentenceLists(n)
          /\ similarity \in Similarities(n)
    /\ NoData
    /\ gatsby_filt = <<>> /\ words = <<>> /\ adjacency = NoFrame
    /\ ranks = <<>> /\ ranked = <<>>
    /\ new_gats = <<>> /\ second_gats = <<>> /\ shorter_gats = <<>>
    /\ new_gats_filt = <<>> /\ new_gats_words = <<>> /\ adjacency_digr = NoFrame
    /\ ranks_digr = <<>> /\ ranked_digr = <<>> /\ digr_loop = NoLoop
    /\ trig_gats = <<>> /\ trig_gats_filt = <<>> /\ trig_gats_words = <<>>
    /\ adjacency_trigr = NoFrame /\ ranks_trigr = <<>> /\ ranked_trigr = <<>>

NextSent == Cell3Rank \/ Cell3Report

\* the sentence extraction
SpecSent == InitSent /\ [][NextSent]_vars

\* most re-executions of a filter cell
MaxRerun == 2

\* the windowing and filter cells, the filter cells executed r more times
RestartSteps(r) ==
    <<"c7", "c8", "c9">> \o Repeat("c8_again", r) \o Repeat("c9_again", r)
    \o <<"c15", "c17">> \o Repeat("c17_again", r)

InitRestart ==
    /\ gatsby \in TriDocs
    /\ \E r \in 0..MaxRerun : todo = RestartSteps(r)
    /\ Fresh

NextRestart ==
    \/ Cell7 \/ Cell8 \/ Cell9 \/ Cell8Again \/ Cell9Again
    \/ Cell15 \/ Cell17 \/ Cell17Again

\* the windowing and filter cells with re-executions
SpecRestart == InitRestart /\ [][NextRestart]_vars

SweepSteps == <<"sweep_setup", "sweep_loop", "models">>

\* the feature set of the one column with the values x
OneColumn(x) ==
    [index |-> [i \in DOMAIN x |-> i - 1], columns |-> <<"balance">>,
     data |-> [i \in DOMAIN x |-> <<x[i]>>]]

InitSweep ==
    /\ todo = SweepSteps
    /\ it = 0 /\ error = "" /\ out = <<>>
    /\ \E n \in 2..MaxRows :
          /\ \E x \in [1..n -> Values] : X_train2 = OneColumn(x)
          /\ Y_train \in [1..n -> Values]
    /\ df = NoFrame /\ trainsize = 0 /\ df_train = NoFrame /\ df_test = NoFrame
    /\ X_train = NoFrame /\ X_test = NoFrame /\ X_test2 = NoFrame /\ Y_test = <<>>
    /\ NoFits
    /\ NoText

NextSweep == SweepSetup \/ SweepLoop \/ SweepDone \/ CellModels

\* the sweep of the regularisation strength
SpecSweep == InitSweep /\ [][NextSweep]_vars

\* the rows a loaded and scaled dataset is made of: default, student,
\* balance, income
RowKinds == {<<0, 0, 0, 0>>, <<1, 0, 1, 0>>, <<0, 1, 1, 1>>, <<1, 1, 1, 1>>}

\* the dataset after pd.DataFrame(preprocessing.scale(df), columns=names)
Dataset(rows) ==
    [index |-> [k \in DOMAIN rows |-> k - 1], columns |-> Loaded, data |-> rows]

PrepSteps == <<"split", "train", "test">>

InitPrep ==
    /\ \E n \in 1..MaxRows : \E rows \in [1..n -> RowKinds] : df = Dataset(rows)
    /\ trainsize = 0 /\ df_train = NoFrame /\ df_test = NoFrame
    /\ X_train = NoFrame /\ X_train2 = NoFrame /\ Y_train = <<>>
    /\ X_test = NoFrame /\ X_test2 = NoFrame /\ Y_test = <<>>
    /\ NoFits
    /\ todo = PrepSteps
    /\ it = 0 /\ error = "" /\ out = <<>>
    /\ NoText

NextPrep == PrepSplit \/ PrepTrain \/ PrepTest

\* the split of the dataset and the feature sets
SpecPrep == InitPrep /\ [][NextPrep]_vars

\* the sweep on two rows, the table of its scores, labels = [] once, and the
\* plotting cell executed up to MaxRerun + 1 times
PlotSteps(r) == SweepSteps \o <<"labels">> \o Repeat("plot", r)

InitPlot ==
    /\ \E x \in [1..2 -> Values] : X_train2 = OneColumn(x)
    /\ Y_train \in [1..2 -> Values]
    /\ df = NoFrame /\ trainsize = 0 /\ df_train = NoFrame /\ df_test = NoFrame
    /\ X_train = NoFrame /\ X_test = NoFrame /\ X_test2 = NoFrame /\ Y_test = <<>>
    /\ NoFits
    /\ \E r \in 1..(MaxRerun + 1) : todo = PlotSteps(r)
    /\ it = 0 /\ error = "" /\ out = <<>>
    /\ NoText

NextPlot ==
    \/ SweepSetup \/ SweepLoop \/ SweepDone \/ CellModels \/ CellLabels \/ CellPlot

\* the plotting cell executed again and again
SpecPlot == InitPlot /\ [][NextPlot]_vars

\* documents of the builder runs: every text of up to MaxBuild words over
\* "cat", "big" and "the", two phrases with up to MaxGap times "ran"
\* between them, and three phrases with "the" between them
BuildDocs ==
    SeqsUpTo({Cat, Big, The}, MaxBuild)
    \cup {<<Big, Cat>> \o Repeat(Ran, b) \o <<Big, n, The>> :
            b \in 0..MaxGap, n \in {Cat, Dog}}
    \cup {<<Big, Cat, The, Big, n, The, Big, Cat, The, The>> : n \in {Cat, Dog}}

BuildSteps == <<"c4_setup", "c4_loop", "c7", "c8", "c9", "c10", "c12_setup", "c12_loop">>

InitBuild == gatsby \in BuildDocs /\ todo = BuildSteps /\ Fresh

NextBuild ==
    \/ Cell4Setup \/ Cell4Loop \/ Cell4Done
    \/ Cell7 \/ Cell8 \/ Cell9 \/ Cell10
    \/ Cell12Setup \/ Cell12Loop \/ Cell12Done

\* the unigram and the digram builder, one after the other
SpecBuild == InitBuild /\ [][NextBuild]_vars

\* The whole notebook, run from top to bottom.
Docs == SeqsUpTo(Lexicon, MaxShort)

TriOwnSteps == <<"c15", "c17", "c18", "c19_setup", "c19_loop", "c20_rank", "c20_report">>

Init == gatsby \in Docs /\ todo = UniSteps \o DiSteps \o TriOwnSteps /\ Fresh

Next ==
    \/ Cell4Setup \/ Cell4Loop \/ Cell4Done \/ Cell5Rank \/ Cell5Report
    \/ Cell7 \/ Cell8 \/ Cell9 \/ Cell10
    \/ Cell12Setup \/ Cell12Loop \/ Cell12Done
    \/ Cell14Rank \/ Cell14Report
    \/ Cell15 \/ Cell17 \/ Cell18
    \/ Cell19Setup \/ Cell19Loop \/ Cell19Done
    \/ Cell20Rank \/ Cell20Report

Spec == Init /\ [][Next]_vars

----------------------------------------------------------------------------
(* Properties.                                                             *)

\* cell has printed its output
HasPrinted(cell) == \E k \in DOMAIN out : out[k].cell = cell

\* the unigram, digram and trigram loops have run to their end
UniBuilt == HasPrinted("c4")
DiBuilt == HasPrinted("c12")
TriBuilt == HasPrinted("c19")

\* the tokens the unigram filter retains, by index
RetainedTokens == {i \in 0..(Len(gatsby) - 1) : KeepUnigram(At(gatsby, i))}

\* the entry of grid grid at row label a and column label b (labels unique)
Weight(grid, a, b) ==
    LET r == CHOOSE r \in DOMAIN grid.index : grid.index[r] = a
        c == CHOOSE c \in DOMAIN grid.columns : grid.columns[c] = b
    IN  grid.data[r][c]

Square(grid) ==
    /\ Len(grid.index) = Len(grid.columns)
    /\ DOMAIN grid.data = DOMAIN grid.index
    /\ \A r \in DOMAIN grid.data : DOMAIN grid.data[r] = DOMAIN grid.columns

\* the elements of sequence s are pairwise different
Distinct(s) == \A k, l \in DOMAIN s : k # l => s[k] # s[l]

\* how often a retained span with the text of b stands within w places after
\* a retained span with the text of a, in the sequence seq
CountWithin(seq, filt, w, a, b) ==
    Cardinality({p \in (DOMAIN seq) \X (DOMAIN seq) :
                    /\ InList(seq[p[1]], filt) /\ Str(gatsby, seq[p[1]]) = Str(gatsby, a)
                    /\ InList(seq[p[2]], filt) /\ Str(gatsby, seq[p[2]]) = Str(gatsby, b)
                    /\ p[1] < p[2] /\ p[2] <= p[1] + w})

\* C2: once the trigram loop has finished, for every ordered pair (A, B) of
\* retained trigrams weight(A, B) is the number of times B stands within the
\* 4 positions after an occurrence of A in the trigram sequence; so two
\* retained trigrams within 4 positions of each other leave an entry >= 1.
C2_TrigramWeights ==
    TriBuilt =>
        /\ \A a, b \in Range(trig_gats_filt) :
              Weight(adjacency_trigr, Str(gatsby, a), Str(gatsby, b)) =
                 CountWithin(trig_gats, trig_gats_filt, 4, a, b)
        /\ (\E a, b \in Range(trig_gats_filt) :
               CountWithin(trig_gats, trig_gats_filt, 4, a, b) >= 1)
           => \E r \in DOMAIN adjacency_trigr.data :
                 \E c \in DOMAIN adjacency_trigr.data[r] : adjacency_trigr.data[r][c] >= 1

FullSpans(doc, size) ==
    [k \in 1..(Len(doc) - size + 1) |-> [start |-> k - 1, end |-> k - 1 + size]]

\* C4: for a text of L >= N tokens the spans that enter the punctuation
\* filter are exactly the L-N+1 spans of N tokens, in text order (N = 2 for
\* the digrams, N = 3 for the trigrams).
C4_AllFullSpans ==
    /\ (todo # <<>> /\ Head(todo) = "c8" /\ Len(gatsby) >= 2)
          => DigramCandidates(new_gats) = FullSpans(gatsby, 2)
    /\ (todo # <<>> /\ Head(todo) = "c17" /\ Len(gatsby) >= 3)
          => TrigramCandidates(trig_gats) = FullSpans(gatsby, 3)

\* the texts of the retained tokens, digrams and trigrams
RetainedTokenTexts == {At(gatsby, i).text : i \in RetainedTokens}
RetainedDigramTexts == {Str(gatsby, d) : d \in Range(new_gats_filt)}
RetainedTrigramTexts == {Str(gatsby, t) : t \in Range(trig_gats_filt)}

\* the texts of the row labels of the unigram grid
UnigramLabelTexts == [k \in DOMAIN adjacency.index |-> At(gatsby, adjacency.index[k]).text]

\* C5: a node is a text: every node set holds one element per distinct
\* retained text, and the labels of every grid are pairwise different texts.
C5_NodesAreTexts ==
    /\ Distinct(UnigramLabelTexts)
    /\ Distinct(adjacency_digr.columns)
    /\ Distinct(adjacency_trigr.columns)
    /\ adjacency # NoFrame => Len(words) = Cardinality(RetainedTokenTexts)
    /\ adjacency_digr # NoFrame => Len(new_gats_words) = Cardinality(RetainedDigramTexts)
    /\ adjacency_trigr # NoFrame => Len(trig_gats_words) = Cardinality(RetainedTrigramTexts)

\* the entries of grid grid are non-negative integers
NonNegative(grid) ==
    \A r \in DOMAIN grid.data : \A c \in DOMAIN grid.data[r] : grid.data[r][c] \in Nat

\* C6: in every state each grid is square, its dimension is the size of the
\* Retained-Span Set (the distinct retained texts) and its entries are
\* non-negative integers.
C6_SquareOfRetainedSet ==
    /\ Square(adjacency) /\ NonNegative(adjacency)
    /\ Square(adjacency_digr) /\ NonNegative(adjacency_digr)
    /\ Square(adjacency_trigr) /\ NonNegative(adjacency_trigr)
    /\ adjacency # NoFrame => Len(adjacency.index) = Cardinality(RetainedTokenTexts)
    /\ adjacency_digr # NoFrame =>
          Len(adjacency_digr.index) = Cardinality(RetainedDigramTexts)
    /\ adjacency_trigr # NoFrame =>
          Len(adjacency_trigr.index) = Cardinality(RetainedTrigramTexts)

\* what cell printed
ReportOf(cell) == out[CHOOSE k \in DOMAIN out : out[k].cell = cell].value

\* the (score, node) pairs of the nodes
PairsOf(scores, nodes) == {<<scores[k], nodes[k]>> : k \in DOMAIN nodes}

\* pair a stands before pair b: higher score first, equal scores by
\* ascending node
AscendingTies(a, b) == a[1] > b[1] \/ (a[1] = b[1] /\ a[2] < b[2])

\* pair a stands before pair b: higher score first, equal scores by
\* descending node
DescendingTies(a, b) == a[1] > b[1] \/ (a[1] = b[1] /\ a[2] > b[2])

\* C7 as claimed: the reported list is the first 5 (or all, if fewer) of the
\* (score, node) pairs sorted by score descending, pairs of equal score in
\* ascending node order.
C7_TiesAscending ==
    HasPrinted("c5") =>
        LET L == ReportOf("c5")
            all == PairsOf(ranks, words)
        IN  /\ Len(L) = Min(TopK, Len(words))
            /\ Range(L) \subseteq all
            /\ \A j, k \in DOMAIN L : j < k => AscendingTies(L[j], L[k])
            /\ \A p \in all \ Range(L) : \A j \in DOMAIN L : AscendingTies(L[j], p)

\* C7 as amended: the reported list is the first 5 (or all, if fewer) of the
\* (score, node) pairs sorted by score descending, pairs of equal score in
\* descending node order (the node later in the text first).
C7_TiesDescending ==
    HasPrinted("c5") =>
        LET L == ReportOf("c5")
            all == PairsOf(ranks, words)
        IN  /\ Len(L) = Min(TopK, Len(words))
            /\ Range(L) \subseteq all
            /\ \A j, k \in DOMAIN L : j < k => DescendingTies(L[j], L[k])
            /\ \A p \in all \ Range(L) : \A j \in DOMAIN L : DescendingTies(L[j], p)

\* a report of 5 out of more nodes, where a node left out has the score of a
\* reported one
C7_Witness ==
    /\ HasPrinted("c5")
    /\ Len(words) > TopK
    /\ Len(ReportOf("c5")) = TopK
    /\ \E p \in PairsOf(ranks, words) \ Range(ReportOf("c5")) :
          \E j \in DOMAIN ReportOf("c5") : ReportOf("c5")[j][1] = p[1]

\* the unigram grid of the text doc after n passes of the loop, for the node
\* order nodes
RECURSIVE UniGrid(_, _, _)
UniGrid(nodes, doc, n) ==
    IF n = 0 THEN DataFrame(nodes)
    ELSE UniBody(UniGrid(nodes, doc, n - 1), doc, FilterUnigrams(doc), n - 1)

\* the digram grid after n passes of the loop over scan, for the node order
\* nodes
RECURSIVE DiGrid(_, _, _, _, _)
DiGrid(nodes, doc, scan, filt, n) ==
    IF n = 0 THEN DataFrame(Labels(doc, nodes))
    ELSE DiBody(DiGrid(nodes, doc, scan, filt, n - 1), doc, scan, filt, n - 1)

\* ranking and report of the unigrams of the text, for the node order nodes
UniRun(nodes) ==
    LET r == pagerank(from_numpy_matrix(UniGrid(nodes, gatsby, Len(gatsby)).data))
    IN  [ok |-> r.ok,
         top |-> IF r.ok THEN Take(Ranked(r.x, nodes, TokenPlaces(nodes)), TopK) ELSE <<>>]

\* ranking and report of the digrams of the text, for the node order nodes
DiRun(nodes) ==
    LET r == pagerank(from_numpy_matrix(
                 DiGrid(nodes, gatsby, DiScanned, new_gats_filt, Len(DiScanned)).data))
    IN  [ok |-> r.ok,
         top |-> IF r.ok THEN Take(Ranked(r.x, nodes, SpanPlaces(nodes)), TopK) ELSE <<>>]

\* C8: the outcome of a run is that of the run whose node set iterates in text
\* order, so any two runs on one text report the same top-5 list (and fail
\* alike), whatever order the node set has.
C8_SameReport ==
    /\ HasPrinted("c5") => UniRun(gatsby_filt) = [ok |-> TRUE, top |-> ReportOf("c5")]
    /\ (UniBuilt /\ error # "" /\ ~HasPrinted("c12")) => ~UniRun(gatsby_filt).ok
    /\ HasPrinted("c14") => DiRun(new_gats_filt) = [ok |-> TRUE, top |-> ReportOf("c14")]
    /\ (DiBuilt /\ error # "") => ~DiRun(new_gats_filt).ok

\* C9: a run on a text without retained tokens ends in an error raised by the
\* ranking step, and never by printing an (empty) top-5 list.
C9_NoDataError ==
    (todo = <<>> /\ RetainedTokens = {}) => (error # "" /\ ~HasPrinted("c5"))

\* C10: the ranking step raises nothing, and every run that ends has printed
\* its top-5 list.
C10_AlwaysReports ==
    /\ error = ""
    /\ todo = <<>> => HasPrinted("c5")

\* row k and column k of grid grid are all zero
Isolated(grid, k) ==
    \A j \in DOMAIN grid.data : grid.data[k][j] = 0 /\ grid.data[j][k] = 0

\* grid grid has no non-zero entry
AllZero(grid) == \A k \in DOMAIN grid.data : Isolated(grid, k)

\* the rows and columns keep of the matrix A
SubMatrix(A, keep) == [r \in DOMAIN keep |-> [c \in DOMAIN keep |-> A[keep[r]][keep[c]]]]

\* the grid grid without its isolated rows and columns
Core(grid) ==
    SubMatrix(grid.data,
              SelectSeq([k \in DOMAIN grid.data |-> k], LAMBDA k : ~Isolated(grid, k)))

\* C11: an isolated node (adjacency row and column all zero) gets a
\* non-negative score and does not make the ranking fail: a ranking that
\* fails also fails on the graph without its isolated nodes; on a grid with
\* no non-zero entry the ranking completes and each of the n nodes gets 1/n.
C11_IsolatedNodes ==
    /\ \A k \in DOMAIN ranks : Isolated(adjacency, k) => ranks[k] >= 0
    /\ (error # "" /\ \E k \in DOMAIN adjacency.data : Isolated(adjacency, k))
          => ~pagerank(from_numpy_matrix(Core(adjacency))).ok
    /\ (UniBuilt /\ AllZero(adjacency)) => error = ""
    /\ (AllZero(adjacency) /\ ranks # <<>>)
          => \A k \in DOMAIN ranks : ranks[k] = Scale \div Len(words)
    /\ \A k \in DOMAIN ranks_trigr : Isolated(adjacency_trigr, k) => ranks_trigr[k] >= 0
    /\ (TriBuilt /\ AllZero(adjacency_trigr)) => error = ""
    /\ (AllZero(adjacency_trigr) /\ ranks_trigr # <<>>)
          => \A k \in DOMAIN ranks_trigr : ranks_trigr[k] = Scale \div Len(trig_gats_words)

\* a finished ranking of a graph with an isolated node and an edge
C11_Witness ==
    /\ ranks # <<>>
    /\ \E k \in DOMAIN ranks : Isolated(adjacency, k) /\ ranks[k] > 0
    /\ \E k \in DOMAIN ranks : ~Isolated(adjacency, k)

\* a finished ranking of a grid of several nodes and no non-zero entry
C11_AllZeroReached ==
    /\ Len(ranks) >= 2 /\ AllZero(adjacency)

\* C12: for the text The cat sat . The dog ran . the unigram grid is 2 x 2
\* over cat (token 1) and dog (token 5), with weight(cat, dog) = 1,
\* weight(dog, cat) = 0 and a zero diagonal.
C12_WorkedExample ==
    (UniBuilt /\ gatsby = TwoSentences) =>
        /\ Range(adjacency.index) = {1, 5} /\ Len(adjacency.index) = 2
        /\ Range(adjacency.columns) = {1, 5} /\ Len(adjacency.columns) = 2
        /\ At(gatsby, 1).text = "cat" /\ At(gatsby, 5).text = "dog"
        /\ Weight(adjacency, 1, 5) = 1
        /\ Weight(adjacency, 5, 1) = 0
        /\ Weight(adjacency, 1, 1) = 0
        /\ Weight(adjacency, 5, 5) = 0

\* the finished unigram grid of the text The cat sat . The dog ran .
C12_Witness == UniBuilt /\ gatsby = TwoSentences /\ Weight(adjacency, 1, 5) = 1

\* cell 8 and cell 9 have been executed at least once
DigramsFiltered == ~InList("c8", todo) /\ ~InList("c9", todo)

\* cell 17 has been executed at least once
TrigramsFiltered == \A k \in DOMAIN todo : todo[k] = "c17_again"

\* second_gats, shorter_gats and trig_gats as the first execution of their
\* cells leaves them
FirstSecondGats ==
    SelectSeq(DigramCandidates(Windows(gatsby, 2)), LAMBDA d : DigramNoPunct(gatsby, d))
FirstShorterGats == SelectSeq(FirstSecondGats, LAMBDA d : DigramNoStop(gatsby, d))
FirstTrigGats ==
    SelectSeq(TrigramCandidates(Windows(gatsby, 3)), LAMBDA t : TrigramNoPunct(gatsby, t))

\* C13: however often the filter cells are executed again, trig_gats,
\* second_gats and shorter_gats keep the values their first execution gave
\* them.
C13_Restartable ==
    /\ TrigramsFiltered => trig_gats = FirstTrigGats
    /\ DigramsFiltered => shorter_gats = FirstShorterGats
    /\ DigramsFiltered => second_gats = FirstSecondGats

\* the digram d passes every test of the digram filters
DigramRetainable(doc, d) ==
    /\ ~SpanTok(doc, d, 0).is_punct /\ ~SpanTok(doc, d, 1).is_punct
    /\ ~SpanTok(doc, d, 0).is_stop /\ ~SpanTok(doc, d, 1).is_stop
    /\ SpanTok(doc, d, 0).pos_ = "ADJ" /\ SpanTok(doc, d, 1).pos_ = "NOUN"

\* C14: once the digram filters have run, a digram of the text is retained
\* if and only if neither token is punctuation, neither is a stop word, the
\* first is an ADJ and the second a NOUN.
C14_DigramFilter ==
    ~InList("c10", todo) =>
        \A d \in Range(FullSpans(gatsby, 2)) :
            InList(d, new_gats_filt) <=> DigramRetainable(gatsby, d)

\* C15: the candidate keywords are exactly the tokens that are no stop
\* words and are tagged NOUN or ADJ.
C15_NounsAndAdjectives ==
    ~InList("c4_setup", todo) =>
        Range(gatsby_filt) =
            {i \in 0..(Len(gatsby) - 1) :
                /\ ~At(gatsby, i).is_stop
                /\ At(gatsby, i).pos_ \in {"NOUN", "ADJ"}}

\* the graph of grid grid joins u and v exactly when one of grid[u][v] and
\* grid[v][u] is positive, and is the same read from u or from v
UndirectedGraphOf(grid) ==
    LET G == from_numpy_matrix(grid.data)
    IN  \A u, v \in DOMAIN grid.data :
           /\ G[u][v] # 0 <=> (grid.data[u][v] > 0 \/ grid.data[v][u] > 0)
           /\ G[u][v] = G[v][u]

\* C16: the graph given to the ranking is undirected: A and B are joined by
\* an edge if and only if weight(A, B) > 0 or weight(B, A) > 0.
C16_Undirected ==
    /\ UniBuilt => UndirectedGraphOf(adjacency)
    /\ DiBuilt => UndirectedGraphOf(adjacency_digr)

\* a finished digram grid where a node is counted only as a later neighbour
\* (its own row is zero) and has an edge to the node before it
C16_Witness ==
    /\ DiBuilt
    /\ \E u, v \in DOMAIN adjacency_digr.data :
          /\ \A c \in DOMAIN adjacency_digr.data : adjacency_digr.data[v][c] = 0
          /\ adjacency_digr.data[u][v] > 0
          /\ from_numpy_matrix(adjacency_digr.data)[v][u] > 0

\* a pass of the unigram loop at token it changes only cells of the row of
\* token it and of the columns of the tokens it+1 .. it+4, by +1
UniForwardStep ==
    (todo # <<>> /\ Head(todo) = "c4_loop" /\ it' = it + 1) =>
        \A r, c \in DOMAIN adjacency.data :
            adjacency'.data[r][c] # adjacency.data[r][c] =>
                /\ adjacency'.data[r][c] = adjacency.data[r][c] + 1
                /\ words[r] = it
                /\ it < words[c] /\ words[c] <= it + 4

\* a pass of the digram loop at position it of the walked sequence changes
\* only cells of the row of the digram at it and of the columns of the
\* digrams at the positions it+1 .. it+14, upwards
DiForwardStep ==
    (todo # <<>> /\ Head(todo) = "c12_loop" /\ it' = it + 1) =>
        \A r, c \in DOMAIN adjacency_digr.data :
            adjacency_digr'.data[r][c] # adjacency_digr.data[r][c] =>
                /\ adjacency_digr'.data[r][c] > adjacency_digr.data[r][c]
                /\ new_gats_words[r] = DiScanned[it + 1]
                /\ \E j \in (it + 2)..Min(it + 15, Len(DiScanned)) :
                      DiScanned[j] = new_gats_words[c]

\* C17: a pass of a builder loop at position i adds only to
\* weight(span_i, span_j) with i < j <= i+W: never to an entry whose column
\* span stands at or before i, and never to weight(span_j, span_i).
C17_ForwardOnly == [][UniForwardStep /\ DiForwardStep]_vars

\* the unigram half of C17
C17_UnigramForwardOnly == [][UniForwardStep]_vars

\* the sum of the entries of the rows 1 .. u of the matrix G
RECURSIVE TotalWeight(_, _)
TotalWeight(G, u) ==
    IF u = 0 THEN 0 ELSE SumTo(G[u], Len(G)) + TotalWeight(G, u - 1)

\* How far the sum of the scores can be from Scale through the rounding of
\* the fixed-point arithmetic: a pass rounds once per unit of edge weight and
\* twice per node, and a pass keeps the share alpha of what the passes
\* before it lost.
SumSlack(G) ==
    ((TotalWeight(G, Len(G)) + 2 * Len(G)) * AlphaDen) \div (AlphaDen - AlphaNum)

\* the scores of the ranking of grid grid are non-negative and sum to 1
SumsToOne(grid, scores) ==
    /\ \A k \in DOMAIN scores : scores[k] >= 0
    /\ Abs(SumTo(scores, Len(scores)) - Scale) <= SumSlack(from_numpy_matrix(grid.data))

\* C19: whenever the ranking of a grid with a non-isolated node returns,
\* every score is non-negative and the scores sum to 1.
C19_SumsToOne ==
    /\ (ranks # <<>> /\ ~AllZero(adjacency)) => SumsToOne(adjacency, ranks)
    /\ (ranks_digr # <<>> /\ ~AllZero(adjacency_digr))
          => SumsToOne(adjacency_digr, ranks_digr)

\* a returned ranking of a digram grid of three or more nodes with counts
C19_Witness ==
    /\ Len(ranks_digr) >= 3
    /\ ~AllZero(adjacency_digr)
    /\ \E k, l \in DOMAIN ranks_digr : ranks_digr[k] # ranks_digr[l]

\* C18: the printed result is the pair of a sentence and the score computed
\* for that sentence, and no sentence has a greater score.
C18_BestSentence ==
    HasPrinted("c3") =>
        /\ \E i \in DOMAIN sentences : ReportOf("c3") = <<ranks[i], sentences[i]>>
        /\ \A j \in DOMAIN ranks : ranks[j] <= ReportOf("c3")[1]

\* a printed sentence that is neither the first of the text nor the last in
\* string order, with a score above another sentence's
C18_Witness ==
    /\ HasPrinted("c3")
    /\ ReportOf("c3")[2] # sentences[1]
    /\ ReportOf("c3")[2] # Len(sentences)
    /\ \E j \in DOMAIN ranks : ranks[j] < ReportOf("c3")[1]

\* the sweep has fitted both estimators at the latest strength of lambds
SweepFitted == lambds # <<>>

\* the latest strength is high enough for the data:
\* alpha >= |X_c . y_c| / n
HighEnough ==
    L1Penalty(Len(Y_train), Strengths[Len(lambds)]) >= Abs(Rho(Feature(X_train2), Y_train))

\* the first strength of the sweep was not
FirstTooLow == L1Penalty(Len(Y_train), Strengths[1]) < Abs(Rho(Feature(X_train2), Y_train))

\* the feature is correlated with the target
Correlated == Rho(Feature(X_train2), Y_train) # 0

LassoAllZero == lassBig.coef_.num = 0

RidgeNoneZero == ridgeregrBig.coef_.num # 0

\* the ridge coefficient has the sign of the least-squares coefficient
\* Rho / NormCol and a smaller magnitude
RidgeShrunken ==
    /\ Sign(ridgeregrBig.coef_.num) = Sign(Rho(Feature(X_train2), Y_train))
    /\ Abs(ridgeregrBig.coef_.num) * NormCol(Feature(X_train2))
          < Abs(Rho(Feature(X_train2), Y_train)) * ridgeregrBig.coef_.den

GraphKept ==
    /\ UniBuilt => adjacency' = adjacency
    /\ DiBuilt => adjacency_digr' = adjacency_digr
    /\ TriBuilt => adjacency_trigr' = adjacency_trigr

\* C21: once a builder loop has finished, the ranking step and the reporter
\* step leave every entry, the dimension and the labels of its adjacency
\* grid unchanged.
C21_GraphNotMutated == [][GraphKept]_vars

\* a digram grid with counts that has been ranked and reported
C21_Witness ==
    /\ HasPrinted("c14")
    /\ ~AllZero(adjacency_digr)
    /\ Len(adjacency_digr.index) >= 2

\* the positions i+1 .. min(i+W, L-1) of a sequence of length L, in order
Following(L, i, W) == [k \in 1..Max(Min(W, L - 1 - i), 0) |-> i + k]

\* the positions of the walked digram sequence that hold a retained digram
RetainedDigramPlaces ==
    {i \in 0..(Len(DiScanned) - 1) : InList(DiScanned[i + 1], new_gats_filt)}

\* the positions of nextwords=shorter_gats[i+1:end]
DiNextPlaces(i) == PySlice(Len(DiScanned), i + 1, DiEnd(Len(DiScanned), i))

\* the neighbours examined are the next W spans, or all that are left
WindowsClipped ==
    /\ \A i \in RetainedTokens :
          UniNextwords(Len(gatsby), i) = Following(Len(gatsby), i, 4)
    /\ \A i \in RetainedDigramPlaces :
          DiNextPlaces(i) = Following(Len(DiScanned), i, 14)

\* the computed end index is within the sequence
EndsClipped ==
    /\ \A i \in RetainedTokens : UniEnd(Len(gatsby), i) <= Len(gatsby)
    /\ \A i \in RetainedDigramPlaces : DiEnd(Len(DiScanned), i) <= Len(DiScanned)

Aligned(rk, scores, nodes, grid, names) ==
    /\ grid.index = names /\ grid.columns = names
    /\ Len(scores) = Len(nodes) /\ Len(rk) = Len(nodes)
    /\ scores = pagerank(from_numpy_matrix(as_matrix(grid))).x
    /\ \A k \in DOMAIN rk : \E i \in DOMAIN nodes : rk[k] = <<scores[i], nodes[i]>>
    /\ \A i \in DOMAIN nodes : \E k \in DOMAIN rk : rk[k] = <<scores[i], nodes[i]>>

\* C23: in the unigram, digram and trigram reporters the score ranks[i] is
\* paired with the node that labels row and column i of the adjacency grid,
\* for every i.
C23_RanksAligned ==
    /\ HasPrinted("c5") => Aligned(ranked, ranks, words, adjacency, words)
    /\ HasPrinted("c14") =>
          Aligned(ranked_digr, ranks_digr, new_gats_words, adjacency_digr,
                  [k \in DOMAIN new_gats_words |-> Str(gatsby, new_gats_words[k])])
    /\ HasPrinted("c20") =>
          Aligned(ranked_trigr, ranks_trigr, trig_gats_words, adjacency_trigr,
                  [k \in DOMAIN trig_gats_words |-> Str(gatsby, trig_gats_words[k])])

\* a digram report over nodes of different texts and different scores whose
\* node list is not in the order of the text
C23_Witness ==
    /\ HasPrinted("c14")
    /\ \E i, j \in DOMAIN new_gats_words :
          /\ i < j
          /\ SpanPlace(new_gats_words[i]) > SpanPlace(new_gats_words[j])
          /\ Str(gatsby, new_gats_words[i]) # Str(gatsby, new_gats_words[j])
          /\ ranks_digr[i] # ranks_digr[j]

\* the sweep loop has run to its end
SweepOver == ~InList("sweep_setup", todo) /\ ~InList("sweep_loop", todo)

\* A step leaves the three lists equally long; a step that records a
\* strength appends one entry to each list and keeps the earlier ones, the
\* new scores being those of a Lasso and a Ridge fit with the new strength
\* as alpha on X_train2 and Y_train, which it leaves alone; and once the
\* loop is over the strengths are 0.01, 0.02, ..., 0.99.
SweepListsStep ==
    /\ Len(r2_scores_lasso') = Len(lambds')
    /\ Len(r2_scores_ridge') = Len(lambds')
    /\ lambds' # lambds =>
          LET k == Len(lambds')
              X == Feature(X_train2)
          IN  /\ k = Len(lambds) + 1
              /\ SubSeq(lambds', 1, k - 1) = lambds
              /\ SubSeq(r2_scores_lasso', 1, k - 1) = r2_scores_lasso
              /\ SubSeq(r2_scores_ridge', 1, k - 1) = r2_scores_ridge
              /\ lambds'[k].den = 100
              /\ r2_scores_lasso'[k] =
                    Score(X, Y_train, LassoCoef(X, Y_train, lambds'[k].num))
              /\ r2_scores_ridge'[k] =
                    Score(X, Y_train, RidgeCoef(X, Y_train, lambds'[k].num))
              /\ X_train2' = X_train2 /\ Y_train' = Y_train
    /\ SweepOver' =>
          /\ Len(lambds') = 99
          /\ \A k \in 1..99 : lambds'[k] = Frac(k, 100)
    /\ df_models' # df_models =>
          /\ Len(df_models'.data) = 99
          /\ \A k \in 1..99 :
                df_models'.data[k] = <<lambds[k], r2_scores_lasso[k], r2_scores_ridge[k]>>

\* C24: after every iteration of the sweep loop lambds, r2_scores_lasso and
\* r2_scores_ridge have the same length and entry k of both score lists is
\* the score of a model fitted with alpha = lambds[k] on X_train2 and
\* Y_train; after the loop each list has the 99 entries of the strengths
\* 0.01, 0.02, ..., 0.99 in increasing order.
C24_SweepLists == [][SweepListsStep]_vars

\* a finished sweep, tabulated, in which the two models score differently
\* and the scores change with the strength
C24_Witness ==
    /\ SweepOver /\ Len(lambds) = 99
    /\ Len(df_models.data) = 99
    /\ r2_scores_lasso[1] # r2_scores_ridge[1]
    /\ r2_scores_lasso[1] # r2_scores_lasso[99]
    /\ r2_scores_ridge[1] # r2_scores_ridge[99]

\* C25: in the unigram builder, whose nodes are token occurrences, every
\* entry of the grid is 0 or 1 in every state, every diagonal entry is 0,
\* every row sums to at most 4, and weight(A, B) = 1 implies
\* weight(B, A) = 0.
C25_UnigramEntries ==
    /\ \A r, c \in DOMAIN adjacency.data :
          /\ adjacency.data[r][c] \in {0, 1}
          /\ r = c => adjacency.data[r][c] = 0
          /\ adjacency.data[r][c] = 1 => adjacency.data[c][r] = 0
    /\ \A r \in DOMAIN adjacency.data :
          SumTo(adjacency.data[r], Len(adjacency.data)) <= 4

\* a finished unigram grid with a row of four neighbours and a retained
\* token beyond the reach of that row's window
C25_Witness ==
    /\ UniBuilt
    /\ Len(words) > 5
    /\ \E r \in DOMAIN adjacency.data :
          SumTo(adjacency.data[r], Len(adjacency.data)) = 4

\* a pass of the unigram loop at token it adds 1 to the cells of the row of
\* token it in the columns of the retained tokens it+1 .. it+4, and leaves
\* every other cell as it was
UniFrameStep ==
    (todo # <<>> /\ Head(todo) = "c4_loop" /\ it' = it + 1) =>
        \A r, c \in DOMAIN adjacency.data :
            adjacency'.data[r][c] = adjacency.data[r][c] +
                (IF words[r] = it /\ it < words[c] /\ words[c] <= it + 4
                 THEN 1 ELSE 0)

\* the places of the walked sequence, inside the window of place i, that
\* hold the retained digram d
DiOccurrences(i, d) ==
    {j \in (i + 1)..Min(i + 14, Len(DiScanned) - 1) :
        DiScanned[j + 1] = d /\ InList(d, new_gats_filt)}

\* a pass of the digram loop at place it adds, to the cells of the row of
\* the digram at it, 1 for every occurrence of the column's digram inside
\* the window, provided the digram at it is retained, and leaves every
\* other cell as it was
DiFrameStep ==
    (todo # <<>> /\ Head(todo) = "c12_loop" /\ it' = it + 1) =>
        \A r, c \in DOMAIN adjacency_digr.data :
            adjacency_digr'.data[r][c] = adjacency_digr.data[r][c] +
                (IF /\ new_gats_words[r] = DiScanned[it + 1]
                    /\ InList(DiScanned[it + 1], new_gats_filt)
                 THEN Cardinality(DiOccurrences(it, new_gats_words[c]))
                 ELSE 0)

\* C26: each builder iteration for position i changes only entries in the
\* row of span_i and only in the columns of retained spans inside its
\* window, each by exactly +1 per occurrence; every other entry is
\* unchanged, an iteration whose span is not retained or has no retained
\* neighbour changes nothing, and so no entry ever decreases.
C26_IterationFrame == [][UniFrameStep /\ DiFrameStep]_vars

\* the unigram half of C26
C26_UnigramFrame == [][UniFrameStep]_vars

\* no pass of either builder loop lowers an entry
C26_NeverDecreases ==
    [][/\ \A r, c \in DOMAIN adjacency.data :
             adjacency'.data = adjacency.data \/ adjacency.data = <<>>
                \/ adjacency'.data[r][c] >= adjacency.data[r][c]
       /\ \A r, c \in DOMAIN adjacency_digr.data :
             adjacency_digr'.data = adjacency_digr.data \/ adjacency_digr.data = <<>>
                \/ Head(todo) # "c12_loop"
                \/ adjacency_digr'.data[r][c] >= adjacency_digr.data[r][c]]_vars

\* the digram half of C26 on grids whose labels are all different
C26_DigramFrameDistinct ==
    [][Distinct(adjacency_digr.index) => DiFrameStep]_vars

\* a pass of the digram loop takes the span at the place the loop has
\* reached, whatever the name i was left bound to, computes end and
\* nextwords from that place, and moves on to the next place
DiOwnPositionStep ==
    (todo # <<>> /\ Head(todo) = "c12_loop" /\ digr_loop' # digr_loop) =>
        /\ it' = it + 1
        /\ digr_loop'.digr = DiScanned[it + 1]
        /\ InList(DiScanned[it + 1], new_gats_filt) =>
              /\ digr_loop'.end = it + 15
              /\ digr_loop'.nextwords =
                    [k \in 1..Min(14, Len(DiScanned) - 1 - it) |-> DiScanned[it + 1 + k]]

\* the loop ends only when every place has had its pass
DiAllVisited ==
    (todo # <<>> /\ Head(todo) = "c12_loop" /\ todo' # todo) =>
        /\ it = Len(DiScanned)
        /\ DiScanned # <<>> => digr_loop.digr = DiScanned[Len(DiScanned)]

\* C30: although the inner loop "for i in neighbors" and the list
\* comprehension reuse the name i of the enumerate index, every outer
\* iteration of the digram builder computes its window from its own
\* position in the scanned sequence (end = position + 15, nextwords = the
\* positions position+1 .. position+14), and every span of the scanned
\* sequence is visited exactly once, in order.
C30_OwnPosition == [][DiOwnPositionStep /\ DiAllVisited]_vars

\* the loop stands before a retained span at a place other than the one the
\* name i, rebound by the inner loop to a span, points at
C30_Witness ==
    /\ todo # <<>> /\ Head(todo) = "c12_loop"
    /\ it < Len(DiScanned)
    /\ "start" \in DOMAIN digr_loop.i
    /\ DiScanned[it + 1] # digr_loop.i
    /\ InList(DiScanned[it + 1], new_gats_filt)

\* the series the plotting cell draws, in plot order
PlottedSeries == <<"r2_scores_lasso", "r2_scores_ridge">>

\* C27: after any sequence of executions of the plotting cell that follows
\* one execution of the cell "labels = []", the list labels holds exactly
\* one entry per plotted series (r2_scores_lasso, r2_scores_ridge) in plot
\* order, so the legend has one label per line.
C27_OneLabelPerSeries ==
    figure # NoFigure =>
        /\ labels = PlottedSeries
        /\ figure.legend = figure.lines

\* the legend itself has one label per line, the line's own
C27_LegendPerLine ==
    figure # NoFigure => figure.lines = PlottedSeries /\ figure.legend = figure.lines

\* every execution of the plotting cell makes labels two entries longer
C27_LabelsGrow ==
    [][(todo # <<>> /\ Head(todo) = "plot") => labels' = labels \o PlottedSeries]_vars

\* row k of the frame part, in the columns the dataset was loaded with
LoadedRow(part, k) ==
    [c \in DOMAIN Loaded |-> part.data[k][ColumnPlace(part, Loaded[c])]]

\* the split has been made
SplitDone == ~InList("split", todo)

\* df_train is the first floor(n / 2) rows of df and df_test the rest, in
\* the order of df, each row of df in exactly one of them
SplitHolds ==
    LET n == Len(df.data)
        h == n \div 2
    IN  /\ trainsize = h
        /\ df_train.index = [k \in 1..h |-> k - 1]
        /\ df_test.index = [k \in 1..(n - h) |-> h + k - 1]
        /\ Len(df_train.data) = h /\ Len(df_test.data) = n - h
        /\ \A k \in 1..h : LoadedRow(df_train, k) = df.data[k]
        /\ \A k \in 1..(n - h) : LoadedRow(df_test, k) = df.data[h + k]
        /\ Range(df_train.index) \cap Range(df_test.index) = {}
        /\ Range(df_train.index) \cup Range(df_test.index) = Range(df.index)

\* a step leaves df alone, a step that adds engineered columns to one part
\* leaves the other part alone, and after it the split is as described
SplitStep ==
    /\ df' = df
    /\ df_train' # df_train /\ SplitDone => df_test' = df_test
    /\ df_test' # df_test /\ SplitDone => df_train' = df_train
    /\ SplitDone' => SplitHolds'

\* C28: for a dataset of n rows, df_train is exactly the first floor(n/2)
\* rows and df_test exactly the remaining rows, in original order; the two
\* parts are disjoint and together contain every row exactly once, and
\* adding engineered columns to one part never changes the other part or
\* the original df.
C28_TrainTestSplit == [][SplitStep]_vars

\* an odd number of rows split, and both parts with their engineered columns
C28_Witness ==
    /\ todo = <<>>
    /\ Len(df.data) = 3 /\ Len(df_train.data) = 1 /\ Len(df_test.data) = 2
    /\ Len(df_train.columns) = 10 /\ Len(df_test.columns) = 10
    /\ Len(df.columns) = 4

\* the six engineered columns, in the order they are added
EngineeredNames ==
    <<"balance_student", "balance_default", "student_default",
      "balance_sqrt", "balance2", "balance3">>

\* C29: the target column 'income' is in none of X_train, X_train2, X_test,
\* X_test2; X_train and X_test hold only the original non-target columns,
\* X_train2 and X_test2 hold those plus the six engineered columns, and
\* X_train2 and X_test2 have the same columns in the same order, and so have
\* X_train and X_test.
C29_FeatureMatrices ==
    /\ \A X \in {X_train, X_train2, X_test, X_test2} : ~InList("income", X.columns)
    /\ ~InList("train", todo) =>
          /\ X_train.columns = <<"default", "student", "balance">>
          /\ X_train2.columns = X_train.columns \o EngineeredNames
          /\ X_train.index = df_train.index /\ X_train2.index = df_train.index
    /\ ~InList("test", todo) =>
          /\ X_test.columns = <<"default", "student", "balance">>
          /\ X_test2.columns = X_test.columns \o EngineeredNames
          /\ X_test.index = df_test.index /\ X_test2.index = df_test.index
          /\ X_test.columns = X_train.columns
          /\ X_test2.columns = X_train2.columns

\* all four feature sets taken from parts that have rows
C29_Witness ==
    /\ todo = <<>>
    /\ Len(X_train.data) > 0 /\ Len(X_test.data) > 0
    /\ Len(X_train2.columns) = 9 /\ Len(X_test2.columns) = 9
    /\ InList("income", df_train.columns) /\ InList("income", df_test.columns)

====
